---- MODULE Spec2Model ----
(***************************************************************************)
(* A model of the engine of Claude God Code: the session orchestrator      *)
(* (apps/backend/agents/session.py), the QA loop with its reviewer and     *)
(* fixer (apps/backend/qa), the coder agent (apps/backend/agents/coder.py),*)
(* the worktree manager with its push retry (apps/backend/core/worktree.py)*)
(* and the phase runner of the spec pipeline (apps/backend/spec).  Each    *)
(* subsystem has its own specification over its own variables; the        *)
(* variables of the other subsystems stay as they are initialised.         *)
(***************************************************************************)
EXTENDS Integers, Sequences, FiniteSets, TLC

(***************************************************************************)
(* Bounds of the model.                                                    *)
(***************************************************************************)
\* the clock runs from 1 to MaxTime
MaxTime == 2
\* a session holds at most MaxMessages conversation messages
MaxMessages == 5

\* a review finds at most MaxReviewIssues issues
MaxReviewIssues == 4
\* a test run has at most MaxTests passing and at most MaxTests failing tests
MaxTests == 1
\* the file the fixer edits has at most MaxLines lines
MaxLines == 2
\* the sign-off handed to the fixer lists at most MaxFixIssues issues
MaxFixIssues == 1
\* QALoopConfig.max_iterations is at most MaxIterations
MaxIterations == 3
\* one review of the QA loop finds at most MaxLoopIssues issues
MaxLoopIssues == 2
\* AgentConfig.max_iterations of the coder is at most MaxCoderIterations
MaxCoderIterations == 2
\* the coder's plan holds at most MaxTasks tasks
MaxTasks == 2
\* one iteration of the coder generates at most MaxChanges file changes
MaxChanges == 1

\* the spec branch is at most MaxCommits commits ahead of the base branch
MaxCommits == 2

\* PipelineConfig.max_retries is at most MaxRetries
MaxRetries == 2

\* cleanup_stale_sessions calls that are counted
MaxCleanups == 2

\* the tasks of an execution plan, and the iterations and retries the
\* coder's configuration allows
MaxPlanTasks == 3
MaxPlanIterations == 4
MaxPlanRetries == 1

\* the sizes of the inputs of the impact severity calculation
MaxFiles == 31
MaxServices == 4
MaxBreaking == 6
MaxMigrating == 1
MaxGaps == 6

\* the pipeline is run at most MaxRuns times on one spec directory
MaxRuns == 2

\* session identifiers uuid4() can draw
SessionIds == {"s1"}

\* started_at / completed_at = None
NoTime == 0

VARIABLES
    sessions,   \* session id -> SessionData (the cached object, equal to its file after every save)
    exists,     \* ids that have a file in sessions_dir
    active,     \* SessionOrchestrator._active_sessions (its keys)
    locks,      \* SessionOrchestrator._locks (its keys)
    now,        \* datetime.now()
    ret,        \* how the last orchestrator call ended: "ok" (returned) or "error" (raised)
    runner,     \* run_agent_session per session: "idle", "agent", "returned", "raised"
    \* orchestrator calls statement by statement (LockSpec)
    task,       \* thread of control -> the call it is in and its position
    lockOwner,  \* session id -> the thread holding _locks[id], or "free"
    \* one call of run_qa_review (ReviewSpec)
    rv_in,      \* what the review meets: the issues found, the test run, whether it raises
    rv_out,     \* the status run_qa_review returns
    \* the spec directory and the repository
    signoff,    \* qa_signoff of implementation_plan.json (NoSignoff: absent)
    fix_request, \* TRUE while QA_FIX_REQUEST.md exists
    code,       \* the lines of the source file app.py
    \* one call of run_qa_fixer (FixerSpec)
    fx_in,      \* auto_apply and the lines of app.py before the call
    fx_out,     \* the status and the FixResult run_qa_fixer returns
    \* one call of QALoop.run (QASpec)
    config,     \* QALoopConfig, and where the callbacks and the report raise
    state,      \* QALoop.state, a QALoopState
    qa_pc,      \* "init", "loop", "finalize", "done" (returned), "raised"
    qa_msg,     \* the message of the last _notify_phase_change
    qa_report,  \* TRUE while QA_ESCALATION.md exists
    qa_in,      \* the iteration count of the sign-off when run was called
    qa_phases,  \* the values state.current_phase was given, in order
    qa_seen,    \* the phases on_phase_change was called with, in order
    qa_writes,  \* the qa_session of every sign-off saved by the run, in order
    \* one call of CoderAgent.run (CoderSpec)
    cd_config,  \* the AgentConfig of the coder's context
    coder,      \* the coder: position, status, counters, _worktree_path, plan
    cd_repo,    \* the files of the repository root (the user's working tree)
    cd_wt,      \* the files of the spec's worktree directory
    \* one call of WorktreeManager.push_branch (PushSpec)
    push,       \* position in _with_retry, the attempts made, the waits, the result
    \* the git repository under WorktreeManager (WorktreeSpec)
    git,        \* branches, checked-out branch, index, the spec's worktree directories
    wt_ret,     \* the last WorktreeManager call and how it ended
    \* one call of SpecPipeline._run_phase (PhaseSpec)
    run_phase,  \* position in the retry loop, the attempts made, the result
    \* one or more calls of SpecPipeline.run on one spec directory (PipelineSpec)
    pipe,       \* PipelineConfig, PipelineState and the position in run
    spec_dir,   \* the artifact files of the spec directory
    \* cancellation of the task that runs a push or a phase
    cancel_requested,
    \* the number of cleanup_stale_sessions calls counted so far
    cleanup_calls,
    \* the input of the impact severity calculation and its results
    impact,
    \* a coder agent that executes an ExecutionPlan
    plan

svars == <<sessions, exists, active, locks, now, ret, runner>>

lvars == <<task, lockOwner>>

rvars == <<rv_in, rv_out>>
dvars == <<signoff, fix_request, code>>
fvars == <<fx_in, fx_out>>
qvars == <<config, state, qa_pc, qa_msg, qa_report, qa_in, qa_phases, qa_seen, qa_writes>>
cvars == <<cd_config, coder, cd_repo, cd_wt>>

pvars == <<push>>
gvars == <<git, wt_ret>>
hvars == <<run_phase>>
kvars == <<pipe, spec_dir>>
nvars == <<cancel_requested, cleanup_calls, impact, plan>>

vars == <<svars, lvars, rvars, dvars, fvars, qvars, cvars, pvars, gvars, hvars, kvars, nvars>>

(***************************************************************************)
(* SessionData                                                             *)
(***************************************************************************)
TerminalStatuses == {"completed", "failed", "cancelled"}

Statuses == {"pending", "running", "paused"} \cup TerminalStatuses

\* phases update_session_phase is called with
Phases == {"coding"}

ErrorSeverities == {"warning", "recoverable", "fatal"}

\* SessionData(session_id=...) with the dataclass defaults
NewSessionData(t) ==
    [status |-> "pending", phase |-> "initializing", result |-> "None",
     created_at |-> t, started_at |-> NoTime, completed_at |-> NoTime,
     messages |-> <<>>, errors |-> <<>>]

\* SessionData.add_message: append a message of the given role
add_message(rec, role) == [rec EXCEPT !.messages = Append(@, role)]

\* start_session's assignments under the lock
StartedRecord(rec, t) ==
    add_message([rec EXCEPT !.started_at = t, !.status = "running",
                            !.phase = "initializing"], "system")

\* complete_session's assignments
CompletedRecord(rec, t) ==
    add_message([rec EXCEPT !.completed_at = t, !.status = "completed",
                            !.phase = "completed", !.result = "done"], "system")

\* fail_session's assignments
FailedRecord(rec, t) ==
    add_message([rec EXCEPT !.completed_at = t, !.status = "failed",
                            !.phase = "failed", !.result = "Failed: reason"], "system")

\* pause_session's assignments
PausedRecord(rec) == add_message([rec EXCEPT !.status = "paused"], "system")

\* resume_session's assignments
ResumedRecord(rec) == add_message([rec EXCEPT !.status = "running"], "system")

\* update_session_phase's assignments
PhaseRecord(rec, phase, withMessage) ==
    IF withMessage
    THEN add_message([rec EXCEPT !.phase = phase], "system")
    ELSE [rec EXCEPT !.phase = phase]

\* record_error's assignments
ErrorRecord(rec, severity) ==
    LET r == add_message([rec EXCEPT !.errors = Append(@, severity)], "system")
    IN  IF severity = "fatal"
        THEN [r EXCEPT !.status = "failed", !.phase = "failed"]
        ELSE r

\* the bound on the conversation length
CanAppend(s) == Len(sessions[s].messages) < MaxMessages

\* _active_sessions.get(id) or store.load(id): None for an unknown id
Found(s) == s \in exists

(***************************************************************************)
(* SessionOrchestrator                                                     *)
(***************************************************************************)
create_session(s) ==
    /\ s \notin exists
    /\ sessions' = [sessions EXCEPT ![s] = add_message(NewSessionData(now), "system")]
    /\ exists' = exists \cup {s}
    /\ ret' = "ok"
    /\ UNCHANGED <<active, locks, now, runner>>

\* start_session without its frame: used by start_session and run_agent_session
StartSessionBody(s) ==
    IF ~Found(s) \/ sessions[s].status \notin {"pending", "paused"}
    THEN /\ ret' = "error"
         /\ UNCHANGED <<sessions, active, locks>>
    ELSE /\ CanAppend(s)
         /\ sessions' = [sessions EXCEPT ![s] = StartedRecord(@, now)]
         /\ active' = active \cup {s}
         /\ locks' = locks \cup {s}
         /\ ret' = "ok"

start_session(s) ==
    /\ StartSessionBody(s)
    /\ UNCHANGED <<exists, now, runner>>

update_session_phase(s, phase, withMessage) ==
    /\ IF ~Found(s)
       THEN UNCHANGED sessions
       ELSE /\ withMessage => CanAppend(s)
            /\ sessions' = [sessions EXCEPT ![s] = PhaseRecord(@, phase, withMessage)]
    /\ ret' = "ok"
    /\ UNCHANGED <<exists, active, locks, now, runner>>

add_agent_message(s) ==
    /\ IF ~Found(s)
       THEN UNCHANGED sessions
       ELSE /\ CanAppend(s)
            /\ sessions' = [sessions EXCEPT ![s] = add_message(@, "assistant")]
    /\ ret' = "ok"
    /\ UNCHANGED <<exists, active, locks, now, runner>>

add_user_message(s) ==
    /\ IF ~Found(s)
       THEN UNCHANGED sessions
       ELSE /\ CanAppend(s)
            /\ sessions' = [sessions EXCEPT ![s] = add_message(@, "user")]
    /\ ret' = "ok"
    /\ UNCHANGED <<exists, active, locks, now, runner>>

record_error(s, severity) ==
    /\ IF ~Found(s)
       THEN UNCHANGED sessions
       ELSE /\ CanAppend(s)
            /\ sessions' = [sessions EXCEPT ![s] = ErrorRecord(@, severity)]
    /\ ret' = "ok"
    /\ UNCHANGED <<exists, active, locks, now, runner>>

\* complete_session without its frame
CompleteSessionBody(s) ==
    IF ~Found(s)
    THEN /\ ret' = "error"
         /\ UNCHANGED <<sessions, active>>
    ELSE /\ CanAppend(s)
         /\ sessions' = [sessions EXCEPT ![s] = CompletedRecord(@, now)]
         /\ active' = active \ {s}
         /\ ret' = "ok"

complete_session(s) ==
    /\ CompleteSessionBody(s)
    /\ UNCHANGED <<exists, locks, now, runner>>

\* fail_session without its frame
FailSessionBody(s) ==
    IF ~Found(s)
    THEN /\ ret' = "error"
         /\ UNCHANGED <<sessions, active>>
    ELSE /\ CanAppend(s)
         /\ sessions' = [sessions EXCEPT ![s] = FailedRecord(@, now)]
         /\ active' = active \ {s}
         /\ ret' = "ok"

fail_session(s) ==
    /\ FailSessionBody(s)
    /\ UNCHANGED <<exists, locks, now, runner>>

pause_session(s) ==
    /\ IF ~Found(s)
       THEN /\ ret' = "error"
            /\ UNCHANGED sessions
       ELSE /\ CanAppend(s)
            /\ sessions' = [sessions EXCEPT ![s] = PausedRecord(@)]
            /\ ret' = "ok"
    /\ UNCHANGED <<exists, active, locks, now, runner>>

resume_session(s) ==
    /\ IF ~Found(s) \/ sessions[s].status # "paused"
       THEN /\ ret' = "error"
            /\ UNCHANGED <<sessions, active>>
       ELSE /\ CanAppend(s)
            /\ sessions' = [sessions EXCEPT ![s] = ResumedRecord(@)]
            /\ active' = active \cup {s}
            /\ ret' = "ok"
    /\ UNCHANGED <<exists, locks, now, runner>>

\* the sessions cleanup_stale_sessions(max_age_hours) times out
Stale(max_age) ==
    {s \in active : sessions[s].started_at # NoTime
                    /\ now - sessions[s].started_at > max_age}

cleanup_stale_sessions(max_age) ==
    /\ sessions' = [s \in SessionIds |->
           IF s \in Stale(max_age)
           THEN [sessions[s] EXCEPT !.status = "failed",
                                    !.result = "Session timed out",
                                    !.completed_at = now]
           ELSE sessions[s]]
    /\ active' = active \ Stale(max_age)
    /\ ret' = "ok"
    /\ UNCHANGED <<exists, locks, now, runner>>

(***************************************************************************)
(* run_agent_session: start_session, then the agent runs (other calls may  *)
(* arrive meanwhile), then complete_session or fail_session.               *)
(***************************************************************************)
RunStart(s) ==
    /\ runner[s] = "idle"
    /\ StartSessionBody(s)
    /\ runner' = [runner EXCEPT ![s] = IF ret' = "ok" THEN "agent" ELSE "raised"]
    /\ UNCHANGED <<exists, now>>

\* outcome: the agent's state is COMPLETED, or not, or agent.run() raised
RunFinish(s, outcome) ==
    /\ runner[s] = "agent"
    /\ IF outcome = "completed" THEN CompleteSessionBody(s) ELSE FailSessionBody(s)
    /\ runner' = [runner EXCEPT ![s] = IF ret' = "ok" THEN "returned" ELSE "raised"]
    /\ UNCHANGED <<exists, locks, now>>

Tick ==
    /\ now < MaxTime
    /\ now' = now + 1
    /\ UNCHANGED <<sessions, exists, active, locks, ret, runner>>

\* threads of control calling into one orchestrator
Workers == {"w1", "w2"}

IdleTask == [op |-> "none", arg |-> "-", sid |-> "-", pc |-> "idle"]

SessionInit ==
    /\ sessions = [s \in SessionIds |-> NewSessionData(NoTime)]
    /\ exists = {}
    /\ active = {}
    /\ locks = {}
    /\ now = 1
    /\ ret = "ok"
    /\ runner = [s \in SessionIds |-> "idle"]

LockInit ==
    /\ task = [w \in Workers |-> IdleTask]
    /\ lockOwner = [s \in SessionIds |-> "free"]

\* no review has been asked for
ReviewIdle ==
    /\ rv_in = [issues |-> <<>>, run |-> "none", raises |-> FALSE]
    /\ rv_out = [status |-> "none"]

\* get_qa_signoff_status returns None
NoSignoff == [status |-> "none", qa_session |-> 0, issues |-> <<>>, ready |-> FALSE]

\* an empty spec directory and an empty app.py
DirIdle ==
    /\ signoff = NoSignoff
    /\ fix_request = FALSE
    /\ code = <<>>

NoResult == [applied |-> <<>>, skipped |-> <<>>, failed |-> <<>>,
             success |-> FALSE, ready |-> FALSE]

\* no fixer call has been asked for
FixerIdle ==
    /\ fx_in = [auto_apply |-> FALSE, code |-> <<>>]
    /\ fx_out = [status |-> "none", result |-> NoResult]

\* QALoopState()
NewLoopState ==
    [current_iteration |-> 0, current_phase |-> "review",
     consecutive_errors |-> 0, history |-> <<>>, is_approved |-> FALSE,
     total_issues_found |-> 0, total_fixes_applied |-> 0,
     escalated_to_human |-> FALSE]

\* no QA loop has been built
LoopIdle ==
    /\ config = [max_iterations |-> 1, max_consecutive_errors |-> 1,
                 auto_fix |-> FALSE, min_fix_confidence |-> 70,
                 raises |-> "none"]
    /\ state = NewLoopState
    /\ qa_pc = "done"
    /\ qa_msg = ""
    /\ qa_report = FALSE
    /\ qa_in = [qa_session |-> 0]
    /\ qa_phases = <<>>
    /\ qa_seen = <<>>
    /\ qa_writes = <<>>

\* the files of a directory before the coder ran
CoderPaths == {"a.py"}
NoFiles == [path \in CoderPaths |-> "absent"]

\* no coder has been built
CoderIdle ==
    /\ cd_config = [use_worktree_isolation |-> FALSE, max_iterations |-> 1,
                    auto_continue |-> FALSE]
    /\ coder = [pc |-> "done", status |-> "idle", iteration_count |-> 0,
                auto_continue_count |-> 0, worktree_path |-> "None",
                tasks |-> 0]
    /\ cd_repo = NoFiles
    /\ cd_wt = NoFiles

\* a diagnostic is the sequence of its words; this one is the empty text
NoDiagnostic == <<>>

\* push_branch has not been called
PushIdle ==
    push = [pc |-> "done", has_worktree |-> FALSE, attempt |-> 0,
            tried |-> <<>>, waits |-> <<>>, last_error |-> NoDiagnostic,
            result |-> [success |-> FALSE, error |-> "none"]]

\* no WorktreeManager call has been made
NoCall == [op |-> "none", outcome |-> "none", value |-> "none",
           met |-> "none", error |-> "none", names |-> "none",
           suggests |-> "none"]

\* a repository with its base branch and no worktree
GitIdle ==
    /\ git = [head |-> "main", branches |-> {"main"}, ahead |-> 0,
              index |-> "clean", new |-> "absent", legacy |-> "absent"]
    /\ wt_ret = NoCall

\* _run_phase has not been called
PhaseIdle ==
    run_phase = [pc |-> "done", phase_name |-> "none", max_retries |-> 0,
                 attempt |-> 0,
                 tried |-> <<>>,
                 sleeps |-> 0, status |-> "none", retries |-> 0]

\* the files of a spec directory, and project_index.json under
\* project_dir / ".claude-god-code"
ArtifactNames ==
    {"project_index.json", "requirements.json", "complexity_assessment.json",
     "context.json", "impact_analysis.json", "spec.md", "global project_index.json"}

\* a file that does not exist
NoFile == [written |-> FALSE, at |-> 0]

\* an empty spec directory; `phases` and `complexity` are the phases_to_run
\* and complexity entries of complexity_assessment.json
EmptySpecDir ==
    [files |-> [name \in ArtifactNames |-> NoFile], phases |-> <<>>,
     complexity |-> "None"]

\* PipelineState() of a pipeline that has not run
NewPipelineState ==
    [pc |-> "idle", run |-> 0, interactive |-> TRUE,
     skip_impact_analysis |-> FALSE, complexity |-> "None", phases |-> <<>>,
     queue |-> <<>>, phases_executed |-> <<>>, phase_results |-> <<>>,
     prev_results |-> <<>>, prev_config |-> <<TRUE, FALSE>>, before |-> EmptySpecDir.files]

\* no pipeline has been built
PipeIdle ==
    /\ pipe = NewPipelineState
    /\ spec_dir = EmptySpecDir

\* no cancellation has been requested
\* no severity has been calculated
NoSeverity == [score |-> 0, level |-> "none", calculated |-> FALSE]

NoImpact ==
    [files |-> 0, services |-> 0, breaking |-> 0, migrating |-> 0, gaps |-> 0,
     result |-> NoSeverity, before |-> NoSeverity]

\* no plan is being executed
NoPlan ==
    [pc |-> "idle", tasks |-> <<>>, status |-> "idle", result |-> "None",
     iteration_count |-> 0, retries_performed |-> 0, auto_continue_count |-> 0,
     max_iterations |-> 0, max_retries |-> 0, auto_continue |-> FALSE,
     started |-> <<>>]

PlanIdle == plan = NoPlan

CancelIdle ==
    cancel_requested = FALSE /\ cleanup_calls = 0 /\ impact = NoImpact /\ PlanIdle

Init ==
    SessionInit /\ LockInit /\ ReviewIdle /\ DirIdle /\ FixerIdle /\ LoopIdle
        /\ CoderIdle /\ PushIdle /\ GitIdle /\ PhaseIdle
        /\ PipeIdle /\ CancelIdle

\* what the orchestrator's atomic calls leave alone
SFrame == UNCHANGED <<lvars, rvars, dvars, fvars, qvars, cvars, pvars, gvars, hvars, kvars, nvars>>

Next ==
    \/ \E s \in SessionIds : create_session(s) /\ SFrame
    \/ \E s \in SessionIds : start_session(s) /\ SFrame
    \/ \E s \in SessionIds, p \in Phases, m \in BOOLEAN : update_session_phase(s, p, m) /\ SFrame
    \/ \E s \in SessionIds : add_agent_message(s) /\ SFrame
    \/ \E s \in SessionIds : add_user_message(s) /\ SFrame
    \/ \E s \in SessionIds, sev \in ErrorSeverities : record_error(s, sev) /\ SFrame
    \/ \E s \in SessionIds : complete_session(s) /\ SFrame
    \/ \E s \in SessionIds : fail_session(s) /\ SFrame
    \/ \E s \in SessionIds : pause_session(s) /\ SFrame
    \/ \E s \in SessionIds : resume_session(s) /\ SFrame
    \/ \E a \in 0..MaxTime : cleanup_stale_sessions(a) /\ SFrame
    \/ \E s \in SessionIds : RunStart(s) /\ SFrame
    \/ \E s \in SessionIds, o \in {"completed", "failed", "exception"} : RunFinish(s, o) /\ SFrame
    \/ Tick /\ SFrame

Spec == Init /\ [][Next]_vars

\* BaseAgent.cancel on the agent run_agent_session is awaiting: the agent's
\* status becomes CANCELLED and its loop stops at the next _should_stop
CancelAgent(s) ==
    /\ runner[s] = "agent"
    /\ runner' = [runner EXCEPT ![s] = "cancelling"]
    /\ UNCHANGED <<sessions, exists, active, locks, now, ret>>

\* agent.run() of the cancelled agent returns; agent_status is CANCELLED, or
\* COMPLETED when the iteration in progress finished the work
RunFinishCancelled(s, agent_status) ==
    /\ runner[s] = "cancelling"
    /\ IF agent_status = "completed" THEN CompleteSessionBody(s)
       ELSE FailSessionBody(s)
    /\ runner' = [runner EXCEPT ![s] = IF ret' = "ok" THEN "returned cancelled"
                                       ELSE "raised"]
    /\ UNCHANGED <<exists, locks, now>>

CancelNext ==
    \/ Next
    \/ \E s \in SessionIds : CancelAgent(s) /\ SFrame
    \/ \E s \in SessionIds, a \in {"cancelled", "completed"} :
          RunFinishCancelled(s, a) /\ SFrame

CancelSpec == Init /\ [][CancelNext]_vars

\* C24: when run_agent_session returns for a session whose agent was
\* cancelled while it ran, the session's status is cancelled.
C24_CancelledSessionIsCancelled ==
    [][\A s \in SessionIds :
          (runner[s] = "cancelling" /\ runner'[s] = "returned cancelled") =>
              sessions'[s].status = "cancelled"]_vars

\* started_at of the session is set and lies more than max_age before now
OlderThan(s, max_age) ==
    sessions[s].started_at # NoTime /\ now - sessions[s].started_at > max_age

\* a call of cleanup_stale_sessions that is counted
CleanupCall(max_age) ==
    /\ cleanup_calls < MaxCleanups
    /\ cleanup_stale_sessions(max_age)
    /\ cleanup_calls' = cleanup_calls + 1
    /\ UNCHANGED <<cancel_requested, impact, plan, lvars, rvars, dvars, fvars, qvars, cvars, pvars, gvars, hvars, kvars>>

\* SessionOrchestrator(repo_root, sessions_dir) built over the sessions
\* directory an earlier orchestrator left, no run_agent_session under way
NewOrchestrator ==
    /\ \A s \in SessionIds : runner[s] # "agent"
    /\ active # {}
    /\ active' = {}
    /\ locks' = {}
    /\ UNCHANGED <<sessions, exists, now, ret, runner>>
    /\ SFrame

CleanupNext ==
    \/ Next
    \/ \E a \in 0..MaxTime : CleanupCall(a)
    \/ NewOrchestrator

CleanupSpec == Init /\ [][CleanupNext]_vars

\* C26: a call of cleanup_stale_sessions(max_age) leaves every running or
\* paused session older than max_age failed with result "Session timed out"
\* and out of the active set, and leaves every younger session as it was.
C26_StaleSessionsTimedOut ==
    [][\A a \in 0..MaxTime :
          CleanupCall(a) =>
              \A s \in exists :
                  /\ (sessions[s].status \in {"running", "paused"}
                          /\ OlderThan(s, a)) =>
                        /\ sessions'[s].status = "failed"
                        /\ sessions'[s].result = "Session timed out"
                        /\ s \notin active'
                  /\ ~OlderThan(s, a) => sessions'[s] = sessions[s]]_vars

(***************************************************************************)
(* The orchestrator's mutating calls statement by statement: the load of   *)
(* the session (with the status check of start_session and resume_session),*)
(* the acquisition of _locks[id] where the call has one, and the           *)
(* assignments with store.save.  Several threads of control call into one  *)
(* orchestrator.                                                           *)
(***************************************************************************)
\* the calls and their arguments
LockCalls ==
    ({"start", "pause", "resume", "complete", "fail",
      "add_agent_message", "add_user_message"} \X {"-"})
        \cup ({"update_session_phase"} \X {"message", "no message"})
        \cup ({"record_error"} \X ErrorSeverities)

\* the check a call makes on the session it loaded; failing it, the call
\* raises or returns at once
ReadCheck(op, s) ==
    /\ Found(s)
    /\ op = "start" => sessions[s].status \in {"pending", "paused"}
    /\ op = "resume" => sessions[s].status = "paused"

\* the calls that contain "async with self._locks[session_id]"
UsesLock(op) == op = "start"

\* the call's assignments to the session
CallRecord(op, arg, rec, t) ==
    CASE op = "start" -> StartedRecord(rec, t)
      [] op = "pause" -> PausedRecord(rec)
      [] op = "resume" -> ResumedRecord(rec)
      [] op = "complete" -> CompletedRecord(rec, t)
      [] op = "fail" -> FailedRecord(rec, t)
      [] op = "add_agent_message" -> add_message(rec, "assistant")
      [] op = "add_user_message" -> add_message(rec, "user")
      [] op = "update_session_phase" -> PhaseRecord(rec, "coding", arg = "message")
      [] op = "record_error" -> ErrorRecord(rec, arg)

\* the call's effect on _active_sessions
CallActive(op, s) ==
    CASE op \in {"start", "resume"} -> active \cup {s}
      [] op \in {"complete", "fail"} -> active \ {s}
      [] OTHER -> active

\* the call loads the session and checks it
LBegin(w, op, arg, s) ==
    /\ task[w].pc = "idle"
    /\ task' = [task EXCEPT ![w] =
           IF ReadCheck(op, s)
           THEN [op |-> op, arg |-> arg, sid |-> s, pc |-> "read"]
           ELSE IdleTask]
    /\ UNCHANGED <<svars, lockOwner, rvars, dvars, fvars, qvars, cvars, pvars, gvars, hvars, kvars, nvars>>

\* async with self._locks[session_id]: entered when the lock is free
LAcquire(w) ==
    /\ task[w].pc = "read"
    /\ UsesLock(task[w].op)
    /\ lockOwner[task[w].sid] = "free"
    /\ lockOwner' = [lockOwner EXCEPT ![task[w].sid] = w]
    /\ locks' = locks \cup {task[w].sid}
    /\ task' = [task EXCEPT ![w].pc = "locked"]
    /\ UNCHANGED <<sessions, exists, active, now, ret, runner, rvars, dvars, fvars, qvars, cvars, pvars, gvars, hvars, kvars, nvars>>

\* the assignments and store.save, and the release of the lock if held
LCommit(w) ==
    LET op == task[w].op
        s == task[w].sid
    IN  /\ task[w].pc = IF UsesLock(op) THEN "locked" ELSE "read"
        /\ Len(CallRecord(op, task[w].arg, sessions[s], now).messages) <= MaxMessages
        /\ sessions' = [sessions EXCEPT ![s] = CallRecord(op, task[w].arg, @, now)]
        /\ active' = CallActive(op, s)
        /\ lockOwner' = [lockOwner EXCEPT ![s] = IF @ = w THEN "free" ELSE @]
        /\ task' = [task EXCEPT ![w] = IdleTask]
        /\ UNCHANGED <<exists, locks, now, ret, runner, rvars, dvars, fvars, qvars, cvars, pvars, gvars, hvars, kvars, nvars>>

LockNext ==
    \/ \E s \in SessionIds : create_session(s) /\ SFrame
    \/ \E w \in Workers, c \in LockCalls, s \in SessionIds : LBegin(w, c[1], c[2], s)
    \/ \E w \in Workers : LAcquire(w)
    \/ \E w \in Workers : LCommit(w)

LockSpec == Init /\ [][LockNext]_vars

(***************************************************************************)
(* QA review: CodeReviewer.review, TestRunner.run_tests, run_qa_review     *)
(***************************************************************************)
IssueSeverities == {"critical", "high", "medium", "low", "info"}

\* reviewer.py line 372: this many high-severity issues fail the review
HighIssueLimit == 3

\* the number of issues of one severity (issues: a sequence of QAIssue)
CountSeverity(issues, sev) ==
    Cardinality({i \in DOMAIN issues : issues[i].severity = sev})

\* CodeReviewer.review, lines 366-373: result.passed
ReviewPassed(issues) ==
    IF CountSeverity(issues, "critical") > 0 THEN FALSE
    ELSE IF CountSeverity(issues, "high") >= HighIssueLimit THEN FALSE
    ELSE TRUE

\* the frameworks _detect_test_framework returns ("none": None)
Frameworks == {"none", "pytest", "jest", "mocha", "go"}

TestResults(passed, total) ==
    [unit_passed |-> passed, unit_total |-> total,
     integration_passed |-> 0, integration_total |-> 0,
     e2e_passed |-> 0, e2e_total |-> 0]

\* TestRunner.run_tests on a run of `framework` in which `passed` tests pass
\* and `failed` fail, or which exceeds the 300 s ceiling.  pytest and go
\* count both; the jest pattern "Tests:\s+(\d+)\s+passed.*?(\d+)\s+total"
\* matches only a summary that starts with the passed count, which jest
\* prints when no test failed; mocha has no branch; a timeout is logged.
run_tests(run) ==
    IF run.framework = "none" THEN TestResults(0, 0)
    ELSE IF run.timed_out THEN TestResults(0, 0)
    ELSE IF run.framework \in {"pytest", "go"}
         THEN TestResults(run.passed, run.passed + run.failed)
    ELSE IF run.framework = "jest" /\ run.failed = 0
         THEN TestResults(run.passed, run.passed)
    ELSE TestResults(0, 0)

\* TestResults.all_passed
all_passed(tr) ==
    /\ tr.unit_passed = tr.unit_total
    /\ tr.integration_passed = tr.integration_total
    /\ tr.e2e_passed = tr.e2e_total

\* the status run_qa_review returns
ReviewStatus(issues, run, raises) ==
    IF raises THEN "error"
    ELSE IF ReviewPassed(issues) /\ all_passed(run_tests(run)) THEN "approved"
    ELSE "rejected"

\* the sign-off run_qa_review saves when the review does not raise
ReviewSignoff(issues, run, raises, qa_session) ==
    LET status == ReviewStatus(issues, run, raises)
    IN  [status |-> status, qa_session |-> qa_session,
         issues |-> IF status = "approved" THEN <<>> ELSE issues,
         ready |-> FALSE]

\* sequences over S of length at most n
SeqUpTo(S, n) == UNION {[1..k -> S] : k \in 0..n}

\* the test runs a review can meet
TestRuns ==
    {[framework |-> "none", passed |-> 0, failed |-> 0, timed_out |-> FALSE]}
        \cup [framework : Frameworks \ {"none"}, passed : 0..MaxTests,
              failed : 0..MaxTests, timed_out : BOOLEAN]

\* the issues ReviewSpec draws: one title, every severity, no location
ReviewIssues ==
    [title : {"Debug Statements"}, severity : IssueSeverities,
     file : {"None"}, line : {0}]

ReviewInit ==
    /\ rv_in \in [issues : SeqUpTo(ReviewIssues, MaxReviewIssues),
                  run : TestRuns, raises : BOOLEAN]
    /\ rv_out = [status |-> "none"]

\* run_qa_review(repo_root, spec_dir, qa_session=1)
RunReview ==
    /\ rv_out.status = "none"
    /\ rv_out' = [status |-> ReviewStatus(rv_in.issues, rv_in.run, rv_in.raises)]
    /\ signoff' = IF rv_in.raises THEN signoff
                  ELSE ReviewSignoff(rv_in.issues, rv_in.run, rv_in.raises, 1)
    /\ UNCHANGED <<rv_in, fix_request, code, svars, lvars, fvars, qvars, cvars, pvars, gvars, hvars, kvars, nvars>>

ReviewNext == RunReview

\* a review is about to run; nothing else is in use
ReviewSpecInit ==
    SessionInit /\ LockInit /\ ReviewInit /\ DirIdle /\ FixerIdle /\ LoopIdle
        /\ CoderIdle /\ PushIdle /\ GitIdle /\ PhaseIdle
        /\ PipeIdle /\ CancelIdle

ReviewSpec == ReviewSpecInit /\ [][ReviewNext]_vars

(***************************************************************************)
(* Session orchestrator: claims                                            *)
(***************************************************************************)
\* a step of one of the mutating orchestrator operations on session s
MutatingCall(s) ==
    \/ start_session(s)
    \/ pause_session(s)
    \/ resume_session(s)
    \/ complete_session(s)
    \/ fail_session(s)
    \/ \E p \in Phases, m \in BOOLEAN : update_session_phase(s, p, m)
    \/ add_agent_message(s)
    \/ add_user_message(s)
    \/ \E sev \in ErrorSeverities : record_error(s, sev)

IsTerminal(s) == s \in exists /\ sessions[s].status \in TerminalStatuses

\* C1: every mutating orchestrator operation on a session whose status is
\* completed, failed or cancelled returns an error and leaves the session's
\* record unchanged.
C1_TerminalAbsorbing ==
    [][\A s \in SessionIds :
          (IsTerminal(s) /\ MutatingCall(s))
              => (ret' = "error" /\ sessions'[s] = sessions[s])]_vars

\* a call is in flight from the load of its session to its store.save
InFlight(w) == task[w].pc \in {"read", "locked"}

\* C2: every mutating call holds the lock of its session from before it
\* reads the session until its mutation is persisted, so no two mutating
\* calls on one session are in flight together.
C2_PerSessionLock ==
    /\ \A w \in Workers : InFlight(w) => lockOwner[task[w].sid] = w
    /\ \A w1, w2 \in Workers :
           (w1 # w2 /\ InFlight(w1) /\ InFlight(w2)) => task[w1].sid # task[w2].sid

\* the status changes of the session state machine
AllowedTransitions ==
    {<<"pending", "running">>, <<"running", "paused">>, <<"paused", "running">>}
        \cup ({"running", "paused"} \X TerminalStatuses)

\* C3: a session's status changes only along pending -> running,
\* running -> paused, paused -> running, and from running or paused into
\* completed, failed or cancelled.
C3_StateMachine ==
    [][\A s \in SessionIds :
          (s \in exists /\ sessions'[s].status # sessions[s].status)
              => <<sessions[s].status, sessions'[s].status>> \in AllowedTransitions]_vars

\* C4: every execution of run_agent_session ends with the session in a
\* terminal status, and a session that has entered a terminal status keeps
\* its status, result and completed_at ever after.
C4_TerminalOnce ==
    [][\A s \in SessionIds :
          /\ (s \in exists /\ runner[s] \in {"idle", "agent"}
                          /\ runner'[s] \in {"returned", "raised"})
                 => sessions'[s].status \in TerminalStatuses
          /\ IsTerminal(s)
                 => /\ sessions'[s].status = sessions[s].status
                    /\ sessions'[s].result = sessions[s].result
                    /\ sessions'[s].completed_at = sessions[s].completed_at]_vars

(***************************************************************************)
(* QA fixer: FixGenerator.generate_fix, Fixer.fix_issues, run_qa_fixer     *)
(***************************************************************************)
\* the titles the fixer meets: three with a fix pattern, one without
FixTitles == {"Debug Statements", "Hardcoded Secrets", "Eval Usage", "Sql Injection"}

\* _fix_patterns[issue.title.lower().replace(" ", "_")].strategy, MANUAL
\* when the key has no pattern
FixStrategy(title) ==
    CASE title = "Hardcoded Secrets" -> "replace"
      [] title = "Empty Except" -> "replace"
      [] title = "Debug Statements" -> "delete"
      [] title = "Eval Usage" -> "refactor"
      [] OTHER -> "manual"

\* the patterns that carry a fix_template
HasFixTemplate(title) == title \in {"Hardcoded Secrets", "Empty Except"}

\* the lines app.py is made of; "" is a blank line
LineKinds == {"print(x)", "key = 'abc'", ""}

\* the only file of the repository; every other path does not exist
FileExists(file) == file = "app.py"

\* the two lines the empty_except template makes of a bare "except:"
ExceptFix == "except Exception as e:\n    logger.error(f'Error: {e}')"

\* _apply_fix_template: in the hardcoded_secrets template {var_name} is
\* replaced when the original line holds an assignment; in the
\* empty_except template {exception} becomes Exception for a bare except
apply_fix_template(title, original_code) ==
    IF title = "Empty Except" THEN ExceptFix
    ELSE IF original_code = "key = 'abc'" THEN "os.environ.get(\"KEY\", \"\")"
    ELSE "os.environ.get(\"{var_name}\", \"\")"

\* _read_file_line
read_file_line(lines, file, line) ==
    IF FileExists(file) /\ 0 < line /\ line <= Len(lines) THEN lines[line]
    ELSE "None"

\* _calculate_confidence, in hundredths
calculate_confidence(severity, strategy) ==
    LET base == IF strategy = "manual" THEN 30
                ELSE IF strategy = "refactor" THEN 50 ELSE 80
    IN  IF severity = "critical" THEN (base * 7) \div 10
        ELSE IF severity = "high" THEN (base * 8) \div 10
        ELSE base

\* Fixer.__init__ and run_qa_fixer: min_confidence, in hundredths
MinConfidence == 70

\* a generate_fix that fills the template without an original line
generate_fix_unlocated(issue, lines) ==
    LET strategy == FixStrategy(issue.title)
    IN  [issue |-> issue,
         strategy |-> strategy,
         file_path |-> issue.file,
         line_number |-> issue.line,
         original_code |-> "None",
         fixed_code |-> IF HasFixTemplate(issue.title)
                        THEN apply_fix_template(issue.title, "None") ELSE "None",
         confidence |-> calculate_confidence(issue.severity, strategy)]

\* generate_fix: the location "file:line" is parsed into file_path and
\* line_number ("None" and 0 stand for None)
generate_fix(issue, lines) ==
    LET strategy == FixStrategy(issue.title)
        original == IF issue.file # "None" /\ issue.line # 0
                    THEN read_file_line(lines, issue.file, issue.line)
                    ELSE "None"
    IN  [issue |-> issue,
         strategy |-> strategy,
         file_path |-> issue.file,
         line_number |-> issue.line,
         original_code |-> original,
         fixed_code |-> IF HasFixTemplate(issue.title) /\ original \notin {"None", ""}
                        THEN apply_fix_template(issue.title, original) ELSE "None",
         confidence |-> calculate_confidence(issue.severity, strategy)]

\* the sequence s without its i-th element
RemoveAt(s, i) == [j \in 1..(Len(s) - 1) |-> IF j < i THEN s[j] ELSE s[j + 1]]

\* str.splitlines of one entry of the list of lines: the fix text of the
\* empty_except template holds a line break
splitlines(text) ==
    IF text = ExceptFix
    THEN <<"except Exception as e:", "    logger.error(f'Error: {e}')">>
    ELSE <<text>>

\* the lines of the entries from the i-th on
RECURSIVE JoinedLines(_, _)
JoinedLines(lines, i) ==
    IF i > Len(lines) THEN <<>>
    ELSE splitlines(lines[i]) \o JoinedLines(lines, i + 1)

\* "\n".join(lines), a final "\n" added when missing, as splitlines reads it
WriteBack(lines) ==
    IF lines = <<>> THEN <<"">>
    ELSE IF Len(lines) > 1 /\ lines[Len(lines)] = "" THEN SubSeq(lines, 1, Len(lines) - 1)
    ELSE JoinedLines(lines, 1)

\* Fixer._apply_fix: whether it returns True, and the lines of the file after
apply_fix(fix, lines) ==
    IF fix.file_path \in {"None", ""} THEN [ok |-> FALSE, lines |-> lines]
    ELSE IF fix.strategy # "delete" /\ fix.fixed_code \in {"None", ""}
         THEN [ok |-> FALSE, lines |-> lines]
    ELSE IF fix.strategy = "manual" THEN [ok |-> FALSE, lines |-> lines]
    ELSE IF ~FileExists(fix.file_path) THEN [ok |-> FALSE, lines |-> lines]
    ELSE LET inRange == 0 < fix.line_number /\ fix.line_number <= Len(lines)
             edited ==
                 IF fix.strategy = "replace" /\ inRange
                 THEN [lines EXCEPT ![fix.line_number] = fix.fixed_code]
                 ELSE IF fix.strategy = "delete" /\ inRange
                 THEN RemoveAt(lines, fix.line_number)
                 ELSE lines
         IN  [ok |-> TRUE, lines |-> WriteBack(edited)]

\* the loop of fix_issues over fixes[i..], from the lists and file so far
RECURSIVE FixLoop(_, _, _, _)
FixLoop(fixes, i, auto_apply, acc) ==
    IF i > Len(fixes) THEN acc
    ELSE LET fix == fixes[i]
         IN  IF fix.confidence < MinConfidence
             THEN FixLoop(fixes, i + 1, auto_apply,
                          [acc EXCEPT !.skipped = Append(@, fix)])
             ELSE IF fix.strategy = "manual"
             THEN FixLoop(fixes, i + 1, auto_apply,
                          [acc EXCEPT !.skipped = Append(@, fix)])
             ELSE IF auto_apply /\ fix.fixed_code \notin {"None", ""}
             THEN LET r == apply_fix(fix, acc.lines)
                  IN  IF r.ok
                      THEN FixLoop(fixes, i + 1, auto_apply,
                                   [acc EXCEPT !.applied = Append(@, fix),
                                               !.lines = r.lines])
                      ELSE FixLoop(fixes, i + 1, auto_apply,
                                   [acc EXCEPT !.failed = Append(@, fix)])
             ELSE FixLoop(fixes, i + 1, auto_apply,
                          [acc EXCEPT !.skipped = Append(@, fix)])

\* Fixer.fix_issues: the FixResult, the file after, whether a fix request
\* file was written
fix_issues(issues, lines, auto_apply) ==
    LET fixes == [i \in DOMAIN issues |-> generate_fix(issues[i], lines)]
        acc == FixLoop(fixes, 1, auto_apply,
                       [applied |-> <<>>, skipped |-> <<>>, failed |-> <<>>,
                        lines |-> lines])
        critical_failed == {i \in DOMAIN acc.failed :
                                acc.failed[i].issue.severity = "critical"}
    IN  [result |-> [applied |-> acc.applied, skipped |-> acc.skipped,
                     failed |-> acc.failed,
                     success |-> critical_failed = {},
                     ready |-> critical_failed = {}],
         lines |-> acc.lines,
         request |-> acc.failed \o acc.skipped # <<>>]

\* a sign-off saved with the qa_session QASignoff has by default
fixed_signoff_default(so) ==
    [status |-> "fixes_applied", qa_session |-> 1, issues |-> <<>>,
     ready |-> TRUE]

\* run_qa_fixer: the sign-off it saves over `so` when the fixes are ready
fixed_signoff(so) ==
    [status |-> "fixes_applied", qa_session |-> so.qa_session,
     issues |-> <<>>, ready |-> TRUE]

\* run_qa_fixer: status, FixResult, and what it leaves on disk
run_qa_fixer(so, lines, request, auto_apply) ==
    IF so = NoSignoff \/ so.issues = <<>>
    THEN [status |-> "error", result |-> NoResult, signoff |-> so,
          lines |-> lines, request |-> request]
    ELSE LET r == fix_issues(so.issues, lines, auto_apply)
         IN  [status |-> IF r.result.ready THEN "fixed" ELSE "error",
              result |-> r.result,
              signoff |-> IF r.result.ready THEN fixed_signoff(so) ELSE so,
              lines |-> r.lines,
              request |-> request \/ r.request]

FixSeverities == {"critical", "high", "low"}

\* the locations an issue can name: none, a line of app.py (0: no line
\* number, MaxLines + 1: past the end), a file that does not exist
FixLocations ==
    {[file |-> "None", line |-> 0], [file |-> "gone.py", line |-> 1]}
        \cup [file : {"app.py"}, line : 0..(MaxLines + 1)]

FixIssues ==
    {[title |-> ti, severity |-> sev, file |-> loc.file, line |-> loc.line] :
        ti \in FixTitles, sev \in FixSeverities, loc \in FixLocations}

FixerInit ==
    /\ code \in SeqUpTo(LineKinds, MaxLines)
    /\ signoff \in {NoSignoff} \cup
           [status : {"rejected"}, qa_session : {1},
            issues : SeqUpTo(FixIssues, MaxFixIssues), ready : {FALSE}]
    /\ fix_request = FALSE
    /\ fx_in \in [auto_apply : BOOLEAN, code : {code}]
    /\ fx_out = [status |-> "none", result |-> NoResult]

\* run_qa_fixer(repo_root, spec_dir, auto_apply=fx_in.auto_apply)
RunFixer ==
    /\ fx_out.status = "none"
    /\ LET r == run_qa_fixer(signoff, code, fix_request, fx_in.auto_apply)
       IN  /\ fx_out' = [status |-> r.status, result |-> r.result]
           /\ signoff' = r.signoff
           /\ code' = r.lines
           /\ fix_request' = r.request
    /\ UNCHANGED <<fx_in, svars, lvars, rvars, qvars, cvars, pvars, gvars, hvars, kvars, nvars>>

FixerNext == RunFixer

\* the fixer is about to run; nothing else is in use
FixerSpecInit ==
    SessionInit /\ LockInit /\ ReviewIdle /\ FixerInit /\ LoopIdle
        /\ CoderIdle /\ PushIdle /\ GitIdle /\ PhaseIdle
        /\ PipeIdle /\ CancelIdle

FixerSpec == FixerSpecInit /\ [][FixerNext]_vars

(***************************************************************************)
(* QA loop: QALoop.run                                                     *)
(***************************************************************************)
\* loop.py line 38: RECURRING_ISSUE_THRESHOLD
RECURRING_ISSUE_THRESHOLD == 3

\* QALoopState.add_iteration
add_iteration(s, record) ==
    [s EXCEPT !.history = Append(@, record),
              !.total_issues_found = @ + Len(record.issues_found)]

\* issue_counts[title] of get_recurring_issues: one count per listed issue
IssueCount(history, title) ==
    Cardinality({p \in UNION {{<<r, i>> : i \in DOMAIN history[r].issues_found} :
                                 r \in DOMAIN history} :
                     history[p[1]].issues_found[p[2]] = title})

\* the titles the history mentions
HistoryTitles(history) ==
    UNION {{history[r].issues_found[i] : i \in DOMAIN history[r].issues_found} :
              r \in DOMAIN history}

\* QALoopState.get_recurring_issues, as the set of its titles
get_recurring_issues(history) ==
    {title \in HistoryTitles(history) :
        IssueCount(history, title) >= RECURRING_ISSUE_THRESHOLD}

\* QALoop._should_escalate
should_escalate(s) ==
    IF get_recurring_issues(s.history) # {} THEN TRUE
    ELSE IF s.consecutive_errors >= config.max_consecutive_errors THEN TRUE
    ELSE FALSE

\* get_qa_iteration_count
get_qa_iteration_count(so) == IF so = NoSignoff THEN 0 ELSE so.qa_session

\* is_qa_approved
is_qa_approved(so) == IF so = NoSignoff THEN FALSE ELSE so.status = "approved"

\* a while loop that also runs when the count has reached the maximum
LoopCondition_inclusive(current_iteration, max_iterations) ==
    current_iteration <= max_iterations

\* the condition of the while loop of run
LoopCondition(current_iteration, max_iterations) ==
    current_iteration < max_iterations

\* what run works on: the loop state, the spec directory, the repository
World ==
    [state |-> state, signoff |-> signoff, request |-> fix_request,
     report |-> qa_report, msg |-> qa_msg, code |-> code, pc |-> qa_pc,
     phases |-> qa_phases, seen |-> qa_seen, writes |-> qa_writes]

\* save_qa_signoff_status(spec_dir, so) when run_qa_fixer returned `so` as
\* the stored sign-off: it has saved one iff the sign-off changed
fixer_saved(q, so) ==
    IF so # q.signoff THEN Append(q.writes, so.qa_session) ELSE q.writes

\* _notify_phase_change up to the call of the callback
notify_phase_change(q, phase, message) ==
    [q EXCEPT !.state.current_phase = phase, !.msg = message,
              !.phases = Append(@, phase), !.seen = Append(@, phase)]

\* the except block of the loop body, lines 384-398
ExceptionHandler(q) ==
    LET ce == q.state.consecutive_errors + 1
        record == [iteration |-> q.state.current_iteration,
                   phase |-> q.state.current_phase,
                   status |-> "exception",
                   issues_found |-> <<"Exception">>]
    IN  [q EXCEPT !.state = add_iteration(
                                [q.state EXCEPT !.consecutive_errors = ce], record),
                  !.pc = IF ce >= config.max_consecutive_errors
                         THEN "finalize" ELSE "loop"]

\* escalated_to_human = True, _create_escalation_report, the FAILED
\* notification and break, inside the try block
EscalateInLoop(q, message) ==
    LET q1 == [q EXCEPT !.state.escalated_to_human = TRUE]
        q2 == notify_phase_change([q1 EXCEPT !.report = TRUE], "failed", message)
    IN  IF config.raises = "report" THEN ExceptionHandler(q1)
        ELSE IF config.raises = "phase_failed" THEN ExceptionHandler(q2)
        ELSE [q2 EXCEPT !.pc = "finalize"]

\* _run_fix_phase after its notification
RunFixPhase(q) ==
    LET r == run_qa_fixer(q.signoff, q.code, q.request, config.auto_fix)
    IN  [q EXCEPT !.signoff = r.signoff, !.writes = fixer_saved(q, r.signoff),
                  !.code = r.lines, !.request = r.request,
                  !.state.total_fixes_applied =
                      IF r.status = "fixed" THEN @ + Len(r.result.applied) ELSE @]

\* the branch status == "approved", lines 349-355
ApprovedBranch(q) ==
    LET q1 == notify_phase_change(
                  [q EXCEPT !.state.is_approved = TRUE,
                            !.state.consecutive_errors = 0],
                  "complete", "QA approved")
    IN  IF config.raises = "phase_complete" THEN ExceptionHandler(q1)
        ELSE IF config.raises = "iteration_end" THEN ExceptionHandler(q1)
        ELSE [q1 EXCEPT !.pc = "finalize"]

\* the branch status == "rejected", lines 357-372
RejectedBranch(q) ==
    LET q1 == [q EXCEPT !.state.consecutive_errors = 0]
        q2 == notify_phase_change(q1, "fix", "Applying fixes")
    IN  IF config.raises = "iteration_end" THEN ExceptionHandler(q1)
        ELSE IF should_escalate(q1.state) THEN EscalateInLoop(q1, "Escalated to human")
        ELSE IF config.auto_fix
             THEN IF config.raises = "phase_fix" THEN ExceptionHandler(q2)
                  ELSE RunFixPhase(q2)
        ELSE q1

\* the branch status == "error", lines 374-382
ErrorBranch(q) ==
    LET q1 == [q EXCEPT !.state.consecutive_errors = @ + 1]
    IN  IF config.raises = "iteration_end" THEN ExceptionHandler(q1)
        ELSE IF q1.state.consecutive_errors >= config.max_consecutive_errors
             THEN EscalateInLoop(q1, "Max errors reached")
        ELSE q1

\* the issue the reviews of the loop find: a debug statement, no location
LoopIssue ==
    [title |-> "Debug Statements", severity |-> "low", file |-> "None", line |-> 0]

\* the issues the empty_except check of DEFAULT_CHECKS reports on app.py
\* from line i on: one of MEDIUM severity at each "except:" followed by "pass"
RECURSIVE ExceptIssues(_, _)
ExceptIssues(lines, i) ==
    IF i >= Len(lines) THEN <<>>
    ELSE (IF lines[i] = "except:" /\ lines[i + 1] = "pass"
          THEN <<[title |-> "Empty Except", severity |-> "medium",
                  file |-> "app.py", line |-> i]>>
          ELSE <<>>) \o ExceptIssues(lines, i + 1)

\* one pass of the loop body, lines 324-398: the review finds n debug
\* statements and the empty except blocks of app.py, and meets test run
\* `run`, or raises
LoopBody(q, n, run, raises) ==
    LET q0 == [q EXCEPT !.state.current_iteration = @ + 1]
        q1 == notify_phase_change(q0, "review", "Running code review")
        issues == [i \in 1..n |-> LoopIssue] \o ExceptIssues(q.code, 1)
        status == ReviewStatus(issues, run, raises)
        record == [iteration |-> q1.state.current_iteration,
                   phase |-> "review",
                   status |-> status,
                   issues_found |-> IF raises THEN <<>>
                                    ELSE [i \in DOMAIN issues |-> issues[i].title]]
        q2 == [q1 EXCEPT !.signoff =
                             IF raises THEN @
                             ELSE ReviewSignoff(issues, run, raises,
                                                q1.state.current_iteration),
                         !.writes = IF raises THEN @
                                    ELSE Append(@, q1.state.current_iteration),
                         !.state = add_iteration(@, record)]
    IN  IF config.raises = "iteration_start" THEN [q0 EXCEPT !.pc = "raised"]
        ELSE IF config.raises = "phase_review" THEN ExceptionHandler(q1)
        ELSE IF status = "approved" THEN ApprovedBranch(q2)
        ELSE IF status = "rejected" THEN RejectedBranch(q2)
        ELSE ErrorBranch(q2)

\* _check_human_feedback, lines 225-245
check_human_feedback(q) ==
    IF ~q.request THEN q
    ELSE LET q1 == notify_phase_change(q, "fix", "Processing human feedback")
             r == run_qa_fixer(q1.signoff, q1.code, q1.request, FALSE)
         IN  IF config.raises = "phase_fix" THEN [q1 EXCEPT !.pc = "raised"]
             ELSE [q1 EXCEPT !.signoff = r.signoff,
                             !.writes = fixer_saved(q1, r.signoff),
                             !.code = r.lines, !.request = FALSE]

\* run up to the loop, lines 306-320
RunPrologue(q) ==
    IF is_qa_approved(q.signoff) /\ ~q.request
    THEN [q EXCEPT !.state.is_approved = TRUE,
                   !.state.current_phase = "complete",
                   !.phases = Append(@, "complete"),
                   !.pc = "done"]
    ELSE LET q1 == check_human_feedback(q)
         IN  IF q1.pc = "raised" THEN q1
             ELSE [q1 EXCEPT !.state.current_iteration =
                                 get_qa_iteration_count(q1.signoff),
                             !.pc = "loop"]

\* run after the loop, lines 400-409
RunEpilogue(q) ==
    IF ~q.state.is_approved /\ ~q.state.escalated_to_human
    THEN LET q1 == [q EXCEPT !.state.escalated_to_human = TRUE]
             q2 == notify_phase_change([q1 EXCEPT !.report = TRUE],
                                       "failed", "Max iterations reached")
         IN  IF config.raises = "report" THEN [q1 EXCEPT !.pc = "raised"]
             ELSE IF config.raises = "phase_failed" THEN [q2 EXCEPT !.pc = "raised"]
             ELSE [q2 EXCEPT !.pc = "done"]
    ELSE [q EXCEPT !.pc = "done"]

\* the variables take the values of q
Becomes(q) ==
    /\ state' = q.state
    /\ signoff' = q.signoff
    /\ fix_request' = q.request
    /\ qa_report' = q.report
    /\ qa_msg' = q.msg
    /\ code' = q.code
    /\ qa_pc' = q.pc
    /\ qa_phases' = q.phases
    /\ qa_seen' = q.seen
    /\ qa_writes' = q.writes
    /\ UNCHANGED <<config, qa_in, svars, lvars, rvars, fvars, cvars, pvars, gvars, hvars, kvars, nvars>>

\* the test runs the reviews of the loop meet: no framework, one failing test
LoopRuns ==
    {[framework |-> "none", passed |-> 0, failed |-> 0, timed_out |-> FALSE],
     [framework |-> "pytest", passed |-> 0, failed |-> 1, timed_out |-> FALSE]}

QAStart ==
    /\ qa_pc = "init"
    /\ Becomes(RunPrologue(World))

QAIterate ==
    /\ qa_pc = "loop"
    /\ LoopCondition(state.current_iteration, config.max_iterations)
    /\ \E n \in 0..MaxLoopIssues, run \in LoopRuns, raises \in BOOLEAN :
           Becomes(LoopBody(World, n, run, raises))

QAFinalize ==
    /\ \/ qa_pc = "finalize"
       \/ /\ qa_pc = "loop"
          /\ ~LoopCondition(state.current_iteration, config.max_iterations)
    /\ Becomes(RunEpilogue(World))

\* where a callback of the configuration, or the writing of the report,
\* raises: nowhere, on_iteration_start, on_phase_change for one phase,
\* on_iteration_end, _create_escalation_report
RaisePoints ==
    {"none", "iteration_start", "phase_review", "phase_complete",
     "phase_fix", "phase_failed", "iteration_end", "report"}

\* the values of max_consecutive_errors the loop is run with
ErrorLimits == {1, 2}

\* the sign-offs a spec directory can hold when run is called
StoredSignoffs ==
    {NoSignoff}
        \cup [status : {"approved"}, qa_session : 1..(MaxIterations + 1),
              issues : {<<>>}, ready : {FALSE}]
        \cup [status : {"rejected"}, qa_session : 1..(MaxIterations + 1),
              issues : {<<>>, <<LoopIssue>>}, ready : {FALSE}]

QAInit ==
    /\ config \in [max_iterations : 1..MaxIterations,
                   max_consecutive_errors : ErrorLimits,
                   auto_fix : BOOLEAN, min_fix_confidence : {MinConfidence},
                   raises : RaisePoints]
    /\ state = NewLoopState
    /\ qa_pc = "init"
    /\ qa_msg = ""
    /\ qa_report = FALSE
    /\ signoff \in StoredSignoffs
    /\ fix_request \in BOOLEAN
    /\ code = <<>>
    /\ qa_in = [qa_session |-> get_qa_iteration_count(signoff)]
    /\ qa_phases = <<>>
    /\ qa_seen = <<>>
    /\ qa_writes = <<>>

QANext == QAStart \/ QAIterate \/ QAFinalize

\* a QA loop is about to run; nothing else is in use
QASpecInit ==
    SessionInit /\ LockInit /\ ReviewIdle /\ FixerIdle /\ QAInit
        /\ CoderIdle /\ PushIdle /\ GitIdle /\ PhaseIdle
        /\ PipeIdle /\ CancelIdle

QASpec == QASpecInit /\ [][QANext]_vars

\* the values of min_fix_confidence the loop is run with, in hundredths:
\* the default and the 0.9 of test_custom_config
FixConfidences == {70, 90}

\* a QA loop is built over a repository whose app.py holds an empty except
\* block, or a debug statement
QAFixInit ==
    /\ config \in [max_iterations : 1..MaxIterations,
                   max_consecutive_errors : {2},
                   auto_fix : BOOLEAN, min_fix_confidence : FixConfidences,
                   raises : {"none"}]
    /\ state = NewLoopState
    /\ qa_pc = "init"
    /\ qa_msg = ""
    /\ qa_report = FALSE
    /\ signoff = NoSignoff
    /\ fix_request \in BOOLEAN
    /\ code \in {<<"except:", "pass">>, <<"print(x)">>}
    /\ qa_in = [qa_session |-> 0]
    /\ qa_phases = <<>>
    /\ qa_seen = <<>>
    /\ qa_writes = <<>>

QAFixSpecInit ==
    SessionInit /\ LockInit /\ ReviewIdle /\ FixerIdle /\ QAFixInit
        /\ CoderIdle /\ PushIdle /\ GitIdle /\ PhaseIdle
        /\ PipeIdle /\ CancelIdle

QAFixSpec == QAFixSpecInit /\ [][QANext]_vars

(***************************************************************************)
(* Coder agent: WorktreeIntegration, CoderAgent.run                        *)
(***************************************************************************)
\* the ways WorktreeIntegration.create_worktree's try block ends: the import
\* of core.worktree fails; WorktreeManager(repo_root) raises; the call
\* manager.create_worktree(spec_id, branch_name) passes two arguments to a
\* method that takes one and raises TypeError
CreateOutcomes == {"ImportError", "WorktreeError", "TypeError"}

\* WorktreeIntegration.create_worktree: the value of _worktree_path after
create_worktree_path(outcome) ==
    CASE outcome = "ImportError" -> "repo_root"
      [] outcome \in {"WorktreeError", "TypeError"} -> "repo_root"

\* WorktreeIntegration.get_working_directory
get_working_directory(worktree_path) ==
    IF worktree_path # "None" THEN worktree_path ELSE "repo_root"

\* the file changes _generate_code_changes can hand to _apply_change
FileChanges ==
    [path : CoderPaths, change_type : {"create", "modify", "delete"},
     new_content : {"", "new"}]

\* CoderAgent._apply_change on the files of the working directory
apply_change(files, change) ==
    IF change.change_type \in {"create", "modify"}
    THEN IF change.new_content # ""
         THEN [files EXCEPT ![change.path] = change.new_content]
         ELSE files
    ELSE [files EXCEPT ![change.path] = "absent"]

\* the loop "for change in changes" of _execute_iteration
RECURSIVE apply_changes(_, _, _)
apply_changes(files, changes, i) ==
    IF i > Len(changes) THEN files
    ELSE apply_changes(apply_change(files, changes[i]), changes, i + 1)

\* AgentState.is_finished
is_finished(status) == status \in {"completed", "failed", "cancelled"}

\* CoderAgent._should_stop (no fatal error is recorded before the loop ends)
should_stop(c) ==
    is_finished(c.status) \/ c.iteration_count >= cd_config.max_iterations

\* AgentConfig.auto_continue_max
auto_continue_max == 10

\* CoderAgent._should_auto_continue, asked with `tasks` tasks left
should_auto_continue(c, tasks) ==
    IF ~cd_config.auto_continue THEN FALSE
    ELSE IF c.auto_continue_count >= auto_continue_max THEN FALSE
    ELSE IF tasks >= 0 THEN tasks > 0
    ELSE FALSE

\* run up to the loop: status RUNNING and _setup_worktree
CoderStart ==
    /\ coder.pc = "init"
    /\ \E outcome \in CreateOutcomes :
           coder' = [coder EXCEPT
                        !.pc = "loop",
                        !.status = "running",
                        !.worktree_path =
                            IF cd_config.use_worktree_isolation
                            THEN create_worktree_path(outcome) ELSE @]
    /\ UNCHANGED <<cd_config, cd_repo, cd_wt, svars, lvars, rvars, dvars, fvars, qvars, pvars, gvars, hvars, kvars, nvars>>

\* one pass of the loop of _execution_loop; tasks = -1 stands for no plan
CoderIteration ==
    /\ coder.pc = "loop"
    /\ ~should_stop(coder)
    /\ \E changes \in SeqUpTo(FileChanges, MaxChanges) :
         LET c1 == [coder EXCEPT !.iteration_count = @ + 1]
             dir == get_working_directory(coder.worktree_path)
             left == IF coder.tasks > 0 THEN coder.tasks - 1 ELSE coder.tasks
         IN  IF coder.tasks = 0
             THEN /\ coder' = [c1 EXCEPT !.status = "completed", !.pc = "done"]
                  /\ UNCHANGED <<cd_repo, cd_wt>>
             ELSE /\ cd_repo' = IF dir = "repo_root"
                                THEN apply_changes(cd_repo, changes, 1) ELSE cd_repo
                  /\ cd_wt' = IF dir = "repo_root"
                              THEN cd_wt ELSE apply_changes(cd_wt, changes, 1)
                  /\ coder' =
                        IF should_auto_continue(c1, left)
                        THEN [c1 EXCEPT !.tasks = left,
                                        !.auto_continue_count = @ + 1]
                        ELSE [c1 EXCEPT !.tasks = left,
                                        !.status = "completed", !.pc = "done"]
    /\ UNCHANGED <<cd_config, svars, lvars, rvars, dvars, fvars, qvars, pvars, gvars, hvars, kvars, nvars>>

\* the loop ends because _should_stop is true, and run returns
CoderStop ==
    /\ coder.pc = "loop"
    /\ should_stop(coder)
    /\ coder' = [coder EXCEPT !.pc = "done"]
    /\ UNCHANGED <<cd_config, cd_repo, cd_wt, svars, lvars, rvars, dvars, fvars, qvars, pvars, gvars, hvars, kvars, nvars>>

CoderInit ==
    /\ cd_config \in [use_worktree_isolation : BOOLEAN,
                      max_iterations : 1..MaxCoderIterations,
                      auto_continue : BOOLEAN]
    /\ coder \in [pc : {"init"}, status : {"idle"}, iteration_count : {0},
                  auto_continue_count : {0}, worktree_path : {"None"},
                  tasks : (-1)..MaxTasks]
    /\ cd_repo \in [CoderPaths -> {"absent", "old"}]
    /\ cd_wt = NoFiles

CoderSpecInit ==
    SessionInit /\ LockInit /\ ReviewIdle /\ DirIdle /\ FixerIdle /\ LoopIdle
        /\ CoderInit /\ PushIdle /\ GitIdle /\ PhaseIdle
        /\ PipeIdle /\ CancelIdle

CoderNext == CoderStart \/ CoderIteration \/ CoderStop

CoderSpec == CoderSpecInit /\ [][CoderNext]_vars

\* C12: with worktree isolation enabled, every file change the coder
\* applies is written inside the spec's worktree and never inside the
\* repository root, also when the creation of the worktree fails.
C12_WritesStayInWorktree ==
    [][cd_config.use_worktree_isolation => cd_repo' = cd_repo]_vars

(***************************************************************************)
(* WorktreeManager.push_branch and _with_retry                             *)
(***************************************************************************)
\* max_retries of push_branch
max_retries == 3

\* the words git's stderr is made of here
Words ==
    {"Connection", "reset", "refused", "network", "timeout", "HTTP", "503",
     "404", "denied", "unreachable", "git", "executable", "not", "found"}

\* str.lower() of one word
lower(word) ==
    CASE word = "Connection" -> "connection"
      [] word = "HTTP" -> "http"
      [] OTHER -> word

\* the texts a failed push leaves on stderr; the last is what do_push
\* returns on FileNotFoundError
Diagnostics ==
    {NoDiagnostic, <<"Connection", "reset">>, <<"Connection", "refused">>,
     <<"network", "unreachable">>, <<"timeout">>, <<"HTTP", "503">>,
     <<"HTTP", "404">>, <<"denied">>,
     <<"git", "executable", "not", "found">>}

\* last_error of _with_retry after subprocess.TimeoutExpired
OperationTimedOut == <<"Operation", "timed", "out">>

\* `term in stderr_lower`
contains(stderr, term) ==
    \E i \in 1..Len(stderr) : lower(stderr[i]) = term

\* _is_retryable_network_error
is_retryable_network_error(stderr) ==
    \E term \in {"connection", "network", "timeout", "reset", "refused"} :
        contains(stderr, term)

\* re.search(r"http[s]?\s*5\d{2}", stderr_lower)
matches_http_5xx(stderr) ==
    \E i \in 1..(Len(stderr) - 1) :
        /\ lower(stderr[i]) \in {"http", "https"}
        /\ stderr[i + 1] \in {"500", "502", "503", "504"}

\* _is_retryable_http_error
is_retryable_http_error(stderr) ==
    \/ matches_http_5xx(stderr)
    \/ contains(stderr, "http") /\ contains(stderr, "timeout")

\* how one call of do_push ends: it returns success, it returns a failure
\* with the text of stderr, subprocess.run raises TimeoutExpired, or it
\* raises another OSError
PushOutcomes ==
    [kind : {"success", "TimeoutExpired", "OSError"}, stderr : {NoDiagnostic}]
        \cup [kind : {"failure"}, stderr : Diagnostics]

backoff_doubled(attempt) == 2 ^ attempt
\* backoff = 2 ** (attempt - 1)
backoff(attempt) == 2 ^ (attempt - 1)

\* _with_retry: whether attempt number `attempt`, ended as `outcome`, is
\* followed by a sleep and another attempt
retries(attempt, outcome) ==
    CASE outcome.kind = "failure" ->
            attempt < max_retries /\ is_retryable_network_error(outcome.stderr)
      [] outcome.kind = "TimeoutExpired" -> attempt < max_retries
      [] OTHER -> FALSE

push_result_raw(last_error) ==
    [success |-> FALSE, error |-> "Operation timed out"]
\* push_branch: the record built when _with_retry returned no result
push_result(last_error) ==
    IF last_error = OperationTimedOut
    THEN [success |-> FALSE, error |-> "Push timed out after 3 attempts."]
    ELSE [success |-> FALSE, error |-> "Failed to push branch"]

\* push_branch up to the call of _with_retry
PushStart ==
    /\ push.pc = "init"
    /\ push' = IF push.has_worktree
               THEN [push EXCEPT !.pc = "retry"]
               ELSE [push EXCEPT !.pc = "done",
                                 !.result = [success |-> FALSE,
                                             error |-> "No worktree found"]]
    /\ UNCHANGED <<svars, lvars, rvars, dvars, fvars, qvars, cvars, gvars, hvars, kvars, nvars>>

\* one pass of the loop of _with_retry
PushAttempt ==
    /\ push.pc = "retry"
    /\ push.attempt < max_retries
    /\ \E outcome \in PushOutcomes :
         LET attempt == push.attempt + 1
             p1 == [push EXCEPT !.attempt = attempt,
                                !.tried = Append(@, outcome)]
             p2 == [p1 EXCEPT !.last_error =
                        CASE outcome.kind = "failure" -> outcome.stderr
                          [] outcome.kind = "TimeoutExpired" -> OperationTimedOut
                          [] OTHER -> @]
         IN  push' =
               CASE outcome.kind = "success" ->
                      [p1 EXCEPT !.pc = "done",
                                 !.result = [success |-> TRUE, error |-> ""]]
                 [] outcome.kind = "OSError" -> [p1 EXCEPT !.pc = "raised"]
                 [] OTHER ->
                      IF retries(attempt, outcome)
                      THEN [p2 EXCEPT !.waits = Append(@, backoff(attempt))]
                      ELSE [p2 EXCEPT !.pc = "after"]
    /\ UNCHANGED <<svars, lvars, rvars, dvars, fvars, qvars, cvars, gvars, hvars, kvars, nvars>>

\* push_branch after _with_retry returned (None, last_error)
PushReturn ==
    /\ push.pc = "after"
    /\ push' = [push EXCEPT !.pc = "done",
                            !.result = push_result(push.last_error)]
    /\ UNCHANGED <<svars, lvars, rvars, dvars, fvars, qvars, cvars, gvars, hvars, kvars, nvars>>

PushInit ==
    push \in [pc : {"init"}, has_worktree : BOOLEAN, attempt : {0},
              tried : {<<>>}, waits : {<<>>}, last_error : {NoDiagnostic},
              result : {[success |-> FALSE, error |-> "none"]}]

PushSpecInit ==
    SessionInit /\ LockInit /\ ReviewIdle /\ DirIdle /\ FixerIdle /\ LoopIdle
        /\ CoderIdle /\ PushInit /\ GitIdle /\ PhaseIdle
        /\ PipeIdle /\ CancelIdle

PushNext == PushStart \/ PushAttempt \/ PushReturn

PushSpec == PushSpecInit /\ [][PushNext]_vars

\* a failure the specification calls transient: its text holds one of the
\* five words or matches HTTP 5xx, or the push timed out
Transient(outcome) ==
    \/ outcome.kind = "TimeoutExpired"
    \/ /\ outcome.kind = "failure"
       /\ \/ is_retryable_network_error(outcome.stderr)
          \/ matches_http_5xx(outcome.stderr)

\* C13: a push is attempted at most 3 times; an attempt is followed by
\* another only if it failed transiently, and then after a wait of
\* 2^(attempt-1) seconds; a failure that is not transient is the last attempt.
C13_PushBackoff ==
    /\ Len(push.tried) <= 3
    /\ Len(push.waits) <= Len(push.tried)
    /\ \A i \in 1..Len(push.tried) :
          /\ (i < Len(push.tried) \/ i <= Len(push.waits)) =>
                /\ Transient(push.tried[i])
                /\ i <= Len(push.waits)
                /\ push.waits[i] = 2 ^ (i - 1)
          /\ (push.tried[i].kind = "failure" /\ ~Transient(push.tried[i])) =>
                /\ i = Len(push.tried)
                /\ push.pc \in {"after", "done"}

\* three attempts were made, with a wait of 1 s and then of 2 s
C13_ThreeAttempts ==
    /\ push.pc = "done"
    /\ Len(push.tried) = 3
    /\ push.waits = <<1, 2>>

\* C14: a failed push that is not the last allowed attempt is retried if and
\* only if its diagnostic holds one of the words connection, network,
\* timeout, reset, refused, or matches HTTP 5xx.
C14_TransientIffRetried ==
    \A i \in 1..Len(push.tried) :
        (push.tried[i].kind = "failure" /\ i < max_retries) =>
            ((i <= Len(push.waits)) <=>
                (\/ is_retryable_network_error(push.tried[i].stderr)
                 \/ matches_http_5xx(push.tried[i].stderr)))

\* every attempt made ended in a retryable failure or a timeout
AllRetryable ==
    \A i \in 1..Len(push.tried) :
        \/ push.tried[i].kind = "TimeoutExpired"
        \/ /\ push.tried[i].kind = "failure"
           /\ is_retryable_network_error(push.tried[i].stderr)

\* C15: after max_retries attempts that each ended in a retryable failure or
\* a timeout, push_branch does not raise; it returns a record with
\* success = false whose error says the push timed out or failed.
C15_ExhaustionReturnsRecord ==
    (Len(push.tried) = max_retries /\ AllRetryable) =>
        /\ push.pc \in {"after", "done"}
        /\ push.pc = "done" =>
              /\ ~push.result.success
              /\ push.result.error \in {"Push timed out after 3 attempts.",
                                        "Failed to push branch"}

\* push_branch returned after three retryable failures, the last a timeout
C15_Exhausted ==
    /\ push.pc = "done"
    /\ Len(push.tried) = max_retries
    /\ AllRetryable
    /\ push.tried[max_retries].kind = "TimeoutExpired"
    /\ push.result.error = "Push timed out after 3 attempts."

(***************************************************************************)
(* WorktreeManager: create, get_or_create, remove, merge, commit           *)
(***************************************************************************)
\* WorktreeManager.base_branch
base_branch == "main"
\* the branch _check_branch_namespace_conflict looks for
BranchPrefix == "claude-god-code"
\* get_branch_name of the one spec of the model
SpecBranch == "claude-god-code/s1"
\* the local branches the repository can have
GitBranches == {base_branch, "feature", BranchPrefix, SpecBranch}

\* the two places a spec's worktree can be: worktrees_dir / spec_name and
\* project_dir / ".worktrees" / spec_name
WorktreePaths == {"new", "legacy"}

\* the directory at one of the two places: "absent", or the branch the
\* worktree there is checked out on
dir_at(g, path) == IF path = "new" THEN g.new ELSE g.legacy

set_dir(g, path, v) ==
    IF path = "new" THEN [g EXCEPT !.new = v] ELSE [g EXCEPT !.legacy = v]

\* WorktreeManager.get_worktree_path
get_worktree_path(g) ==
    IF g.new # "absent" THEN "new"
    ELSE IF g.legacy # "absent" THEN "legacy"
    ELSE "new"

\* WorktreeManager.get_worktree_info: None, or the info of the worktree
get_worktree_info(g) ==
    IF dir_at(g, get_worktree_path(g)) = "absent" THEN "None" ELSE "WorktreeInfo"

no_namespace_conflict(g) == "None"
\* WorktreeManager._check_branch_namespace_conflict
check_branch_namespace_conflict(g) ==
    IF BranchPrefix \in g.branches THEN BranchPrefix ELSE "None"

\* git refuses to delete a branch that is checked out somewhere
checked_out(g, b) == g.head = b \/ g.new = b \/ g.legacy = b

\* git worktree remove --force <path>, which succeeds or not
git_worktree_remove(g, path, ok) ==
    IF ok THEN set_dir(g, path, "absent") ELSE g

\* git branch -D <b>
git_branch_D(g, b) ==
    IF b \in g.branches /\ ~checked_out(g, b)
    THEN [g EXCEPT !.branches = @ \ {b}, !.ahead = 0]
    ELSE g

\* git worktree add -b <b> <path> can succeed: the branch does not exist, no
\* branch named like its first component exists, the path is free
can_worktree_add(g, path, b) ==
    /\ b \notin g.branches
    /\ BranchPrefix \notin g.branches
    /\ dir_at(g, path) = "absent"

\* what a call hands to its caller
Returned(op, value) ==
    [op |-> op, outcome |-> "returned", value |-> value, met |-> "none",
     error |-> "none", names |-> "none", suggests |-> "none"]

\* WorktreeError(...) raised to the caller
Raised(op, names, suggests) ==
    [op |-> op, outcome |-> "raised", value |-> "none", met |-> "none",
     error |-> "WorktreeError", names |-> names, suggests |-> suggests]

finish_create_unchecked(g, worktree_path, added) ==
    [git |-> IF added
             THEN [set_dir(g, worktree_path, SpecBranch)
                      EXCEPT !.branches = @ \cup {SpecBranch}, !.ahead = 0]
             ELSE g,
     ret |-> Returned("create_worktree", "WorktreeInfo")]
\* the end of create_worktree: WorktreeError when `worktree add` failed,
\* the WorktreeInfo of the new worktree otherwise
finish_create(g, worktree_path, added) ==
    IF added
    THEN [git |-> [set_dir(g, worktree_path, SpecBranch)
                      EXCEPT !.branches = @ \cup {SpecBranch}, !.ahead = 0],
          ret |-> Returned("create_worktree", "WorktreeInfo")]
    ELSE [git |-> g, ret |-> Raised("create_worktree", "none", "none")]

\* WorktreeManager.create_worktree on repository g, when `worktree remove`
\* and `worktree add` end as rm_ok and add_ok say
create_worktree(g, rm_ok, add_ok) ==
    LET worktree_path == get_worktree_path(g)
        conflicting_branch == check_branch_namespace_conflict(g)
        g1 == IF dir_at(g, worktree_path) # "absent"
              THEN git_worktree_remove(g, worktree_path, rm_ok) ELSE g
        g2 == git_branch_D(g1, SpecBranch)
    IN  IF conflicting_branch # "None"
        THEN [git |-> g,
              ret |-> Raised("create_worktree", conflicting_branch,
                             "git branch -m claude-god-code claude-god-code-backup")]
        ELSE finish_create(g2, worktree_path,
                           add_ok /\ can_worktree_add(g2, worktree_path, SpecBranch))

\* WorktreeManager.remove_worktree; when `worktree remove` fails the
\* directory is deleted by shutil.rmtree and stays registered until the
\* prune at the end, so that `branch -D` in between is refused
remove_worktree(g, delete_branch, rm_ok) ==
    LET worktree_path == get_worktree_path(g)
        had == dir_at(g, worktree_path) # "absent"
        g1 == set_dir(g, worktree_path, "absent")
    IN  IF delete_branch /\ (rm_ok \/ ~had)
        THEN git_branch_D(g1, SpecBranch)
        ELSE g1

CreateWorktree ==
    /\ \E rm_ok \in BOOLEAN, add_ok \in BOOLEAN :
          LET r == create_worktree(git, rm_ok, add_ok)
          IN  git' = r.git /\ wt_ret' = r.ret
    /\ UNCHANGED <<svars, lvars, rvars, dvars, fvars, qvars, cvars, pvars, hvars, kvars, nvars>>

\* WorktreeManager.get_or_create_worktree
GetOrCreateWorktree ==
    /\ \E rm_ok \in BOOLEAN, add_ok \in BOOLEAN :
          LET r == create_worktree(git, rm_ok, add_ok)
          IN  IF get_worktree_info(git) # "None"
              THEN /\ git' = git
                   /\ wt_ret' = Returned("get_or_create_worktree", "WorktreeInfo")
              ELSE /\ git' = r.git
                   /\ wt_ret' = [r.ret EXCEPT !.op = "get_or_create_worktree"]
    /\ UNCHANGED <<svars, lvars, rvars, dvars, fvars, qvars, cvars, pvars, hvars, kvars, nvars>>

RemoveWorktree ==
    /\ \E delete_branch \in BOOLEAN, rm_ok \in BOOLEAN :
          git' = remove_worktree(git, delete_branch, rm_ok)
    /\ wt_ret' = Returned("remove_worktree", "None")
    /\ UNCHANGED <<svars, lvars, rvars, dvars, fvars, qvars, cvars, pvars, hvars, kvars, nvars>>

\* WorktreeManager.commit_in_worktree, with changes to commit
CommitInWorktree ==
    /\ git.ahead < MaxCommits
    /\ LET worktree_path == get_worktree_path(git)
       IN  IF dir_at(git, worktree_path) = "absent"
           THEN /\ git' = git
                /\ wt_ret' = Returned("commit_in_worktree", "False")
           ELSE /\ git' = IF dir_at(git, worktree_path) = SpecBranch
                          THEN [git EXCEPT !.ahead = @ + 1] ELSE git
                /\ wt_ret' = Returned("commit_in_worktree", "True")
    /\ UNCHANGED <<svars, lvars, rvars, dvars, fvars, qvars, cvars, pvars, hvars, kvars, nvars>>

\* how `git merge --no-ff <branch>` can end in repository g
MergeResults(g, branch) ==
    IF g.index # "clean" THEN {"failed"}
    ELSE IF branch = SpecBranch /\ g.ahead > 0
    THEN {"merged", "conflict", "failed"}
    ELSE {"up to date"}

\* WorktreeManager.merge_worktree
MergeWorktree ==
    /\ \E delete_after \in BOOLEAN, no_commit \in BOOLEAN,
          checkout_ok \in BOOLEAN, rm_ok \in BOOLEAN :
         LET info == get_worktree_info(git)
             branch == dir_at(git, get_worktree_path(git))
             g1 == IF git.head # base_branch /\ checkout_ok
                   THEN [git EXCEPT !.head = base_branch] ELSE git
         IN  IF info = "None"
             THEN /\ git' = git
                  /\ wt_ret' = Returned("merge_worktree", "False")
             ELSE IF g1.head # base_branch
             THEN /\ git' = g1
                  /\ wt_ret' = Returned("merge_worktree", "False")
             ELSE \E result \in MergeResults(g1, branch) :
                    CASE result \in {"merged", "up to date"} ->
                           LET g2 == IF result = "up to date" THEN g1
                                     ELSE IF no_commit
                                     THEN [g1 EXCEPT !.index = "staged"]
                                     ELSE [g1 EXCEPT !.ahead = 0]
                           IN  /\ git' = IF delete_after
                                         THEN remove_worktree(g2, TRUE, rm_ok)
                                         ELSE g2
                               /\ wt_ret' = [Returned("merge_worktree", "True")
                                                EXCEPT !.met = result]
                      [] OTHER ->
                           \* merge --abort puts index and working tree back
                           /\ git' = g1
                           /\ wt_ret' = [Returned("merge_worktree", "False")
                                            EXCEPT !.met = result]
    /\ UNCHANGED <<svars, lvars, rvars, dvars, fvars, qvars, cvars, pvars, hvars, kvars, nvars>>

\* a repository with its base branch, perhaps a feature branch checked out,
\* perhaps a branch named like the prefix, perhaps a worktree of an earlier
\* layout under .worktrees
GitInit ==
    /\ \E head \in {base_branch, "feature"}, prefix \in BOOLEAN,
          legacy \in BOOLEAN :
          git = [head |-> head,
                 branches |-> {base_branch, "feature"}
                     \cup (IF prefix THEN {BranchPrefix} ELSE {})
                     \cup (IF legacy /\ ~prefix THEN {SpecBranch} ELSE {}),
                 ahead |-> 0, index |-> "clean", new |-> "absent",
                 legacy |-> IF legacy /\ ~prefix THEN SpecBranch ELSE "absent"]
    /\ wt_ret = NoCall

WorktreeSpecInit ==
    SessionInit /\ LockInit /\ ReviewIdle /\ DirIdle /\ FixerIdle /\ LoopIdle
        /\ CoderIdle /\ PushIdle /\ GitInit /\ PhaseIdle
        /\ PipeIdle /\ CancelIdle

WorktreeNext ==
    \/ CreateWorktree
    \/ GetOrCreateWorktree
    \/ RemoveWorktree
    \/ CommitInWorktree
    \/ MergeWorktree

WorktreeSpec == WorktreeSpecInit /\ [][WorktreeNext]_vars

\* C16: when merge_worktree meets a merge conflict it returns failure and
\* the repository has the checked-out branch, index, working tree, branches
\* and worktrees it had before the call.
C16_ConflictLeavesNoTrace ==
    [][(wt_ret'.op = "merge_worktree" /\ wt_ret'.met = "conflict") =>
          /\ wt_ret'.value = "False"
          /\ git' = git]_vars

\* C17: with a local branch named like the prefix, create_worktree ends in
\* an error whose message names that branch and gives the rename command,
\* and the repository, its worktree directories included, is as before.
C17_NamespaceConflictReported ==
    [][(wt_ret'.op = "create_worktree" /\ BranchPrefix \in git.branches) =>
          /\ wt_ret'.error = "WorktreeError"
          /\ wt_ret'.names = BranchPrefix
          /\ wt_ret'.suggests = "git branch -m claude-god-code claude-god-code-backup"
          /\ git'.new = git.new /\ git'.legacy = git.legacy]_vars

\* create_worktree was refused because of the branch named like the prefix
C17_Refused ==
    /\ wt_ret.op = "create_worktree"
    /\ wt_ret.outcome = "raised"
    /\ wt_ret.names = BranchPrefix
    /\ BranchPrefix \in git.branches
    /\ git.new = "absent" /\ git.legacy = "absent"

\* C18: when create_worktree has returned a WorktreeInfo, exactly one
\* worktree directory exists for the spec, the spec's branch exists, and
\* that worktree is checked out on it.
C18_OneWorktreeOneBranch ==
    (wt_ret.op = "create_worktree" /\ wt_ret.outcome = "returned") =>
        /\ Cardinality({path \in WorktreePaths : dir_at(git, path) # "absent"}) = 1
        /\ SpecBranch \in git.branches
        /\ dir_at(git, get_worktree_path(git)) = SpecBranch

\* create_worktree succeeded in a repository that had a worktree of the
\* earlier layout
C18_CreatedOverLegacy ==
    /\ wt_ret.op = "create_worktree"
    /\ wt_ret.outcome = "returned"
    /\ git.legacy = SpecBranch

\* C19: a spec's worktree and its branch, with the commits on it, stay as
\* they are under every call other than merge_worktree and remove_worktree.
C19_WorktreePersists ==
    [][(/\ get_worktree_info(git) # "None"
        /\ SpecBranch \in git.branches
        /\ wt_ret'.op \notin {"merge_worktree", "remove_worktree"}) =>
          /\ git'.new = git.new /\ git'.legacy = git.legacy
          /\ SpecBranch \in git'.branches
          /\ git'.ahead >= git.ahead]_vars

(***************************************************************************)
(* SpecPipeline._run_phase                                                 *)
(***************************************************************************)
\* SpecPipeline._phases
PhaseNames ==
    {"discovery", "requirements", "complexity_assessment", "context",
     "impact_analysis", "spec_writing", "validation"}

\* how one call of a phase function ends: it returns a COMPLETED result, it
\* returns a FAILED result, or it raises.  _phase_requirements has no FAILED
\* result; _phase_spec_writing turns its exceptions into a FAILED result,
\* except one raised inside _discover_applicable_skills, which that function
\* logs and drops ("skills_raised": the phase goes on and completes)
PhaseOutcomes(phase_name) ==
    CASE phase_name = "requirements" -> {"completed", "raises"}
      [] phase_name = "spec_writing" -> {"completed", "failed", "skills_raised"}
      [] OTHER -> {"completed", "failed", "raises"}

\* _run_phase: whether the pass numbered `attempt` (from 0), ended as
\* `outcome`, is followed by time.sleep(1) and another pass
retry_after(attempt, outcome) ==
    outcome = "raises" /\ attempt < run_phase.max_retries

\* one pass of the loop of _run_phase
PhaseAttempt ==
    /\ run_phase.pc = "loop"
    /\ run_phase.attempt <= run_phase.max_retries
    /\ \E outcome \in PhaseOutcomes(run_phase.phase_name) :
         LET attempt == run_phase.attempt
             r1 == [run_phase EXCEPT !.tried = Append(@, outcome)]
         IN  run_phase' =
               IF retry_after(attempt, outcome)
               THEN [r1 EXCEPT !.attempt = @ + 1, !.sleeps = @ + 1]
               ELSE [r1 EXCEPT !.pc = "done",
                               !.status = IF outcome \in {"completed", "skills_raised"}
                                          THEN "completed" ELSE "failed",
                               !.retries = attempt]
    /\ UNCHANGED <<svars, lvars, rvars, dvars, fvars, qvars, cvars, pvars, gvars, kvars, nvars>>

PhaseInit ==
    run_phase \in [pc : {"loop"}, phase_name : PhaseNames,
                   max_retries : 0..MaxRetries, attempt : {0},
                   tried : {<<>>}, sleeps : {0}, status : {"none"},
                   retries : {0}]

PhaseSpecInit ==
    SessionInit /\ LockInit /\ ReviewIdle /\ DirIdle /\ FixerIdle /\ LoopIdle
        /\ CoderIdle /\ PushIdle /\ GitIdle /\ PhaseInit
        /\ PipeIdle /\ CancelIdle

PhaseNext == PhaseAttempt

PhaseSpec == PhaseSpecInit /\ [][PhaseNext]_vars

\* C20: an attempt of a phase that fails, by raising or by returning a
\* failed result, is followed by another attempt unless max_retries retries
\* have been made already.
C20_FailedPhaseRetried ==
    \A i \in 1..Len(run_phase.tried) :
        (run_phase.tried[i] \in {"failed", "raises"}
            /\ i <= run_phase.max_retries) =>
                (i < Len(run_phase.tried) \/ run_phase.pc = "loop")

\* C31: when _run_phase has returned after a pass in which an exception was
\* raised, the result it added to the pipeline state is FAILED (its error
\* list holds the exception); _run_phase never raises to its caller.
C31_NoExceptionDisappears ==
    (/\ run_phase.pc = "done"
     /\ \E i \in 1..Len(run_phase.tried) :
           run_phase.tried[i] \in {"raises", "skills_raised"}) =>
        run_phase.status = "failed"

(***************************************************************************)
(* SpecPipeline.run over the phase functions                               *)
(***************************************************************************)
Complexities == {"simple", "standard", "complex", "critical"}

\* ComplexityAssessment.phases_to_run
phases_to_run(recommended_phases, complexity, needs_research) ==
    IF recommended_phases # <<>> THEN recommended_phases
    ELSE CASE complexity = "simple" -> <<"discovery", "quick_spec", "validation">>
           [] complexity = "standard" ->
                <<"discovery", "requirements">>
                    \o (IF needs_research THEN <<"research">> ELSE <<>>)
                    \o <<"context", "spec_writing", "planning", "validation">>
           [] complexity = "complex" ->
                <<"discovery", "requirements", "research", "context",
                  "impact_analysis", "spec_writing", "self_critique",
                  "planning", "validation">>
           [] OTHER ->
                <<"discovery", "requirements", "research", "context",
                  "impact_analysis", "migration_planning", "spec_writing",
                  "self_critique", "planning", "validation",
                  "rollback_planning">>

\* the elements of a sequence
Range(s) == {s[i] : i \in DOMAIN s}

\* [p for p in s if keep(p)], for membership in a set
RECURSIVE Without(_, _)
Without(s, drop) ==
    IF s = <<>> THEN <<>>
    ELSE (IF Head(s) \in drop THEN <<>> ELSE <<Head(s)>>) \o Without(Tail(s), drop)

\* SpecPipeline._get_remaining_phases
get_remaining_phases(p) ==
    IF p.complexity = "None" THEN <<"context", "spec_writing", "validation">>
    ELSE Without(p.phases,
                 Range(p.phases_executed)
                     \cup (IF p.skip_impact_analysis
                           THEN {"impact_analysis"} ELSE {}))

\* a file written with content that depends on the inputs only
Written == [written |-> TRUE, at |-> 0]

\* a file written with datetime.now() of run number `run` in its content
WrittenAt(run) == [written |-> TRUE, at |-> run]

\* the files _phase_validation requires
required_files(complexity) ==
    {"project_index.json", "complexity_assessment.json"}
        \cup (IF complexity \notin {"None", "simple"}
              THEN {"context.json", "requirements.json", "spec.md"} ELSE {})

\* what a phase hands back and leaves behind
Outcome(name, status, cached, d, p) ==
    [result |-> [phase_name |-> name, status |-> status, cached |-> cached],
     dir |-> d, complexity |-> p.complexity, phases |-> p.phases]

\* run_discovery without force_refresh
phase_discovery(d, p, ok) ==
    IF d.files["project_index.json"].written
    THEN Outcome("discovery", "completed", TRUE, d, p)
    ELSE IF ~ok THEN Outcome("discovery", "failed", FALSE, d, p)
    ELSE IF d.files["global project_index.json"].written
    THEN Outcome("discovery", "completed", FALSE,
                 [d EXCEPT !.files["project_index.json"] =
                               d.files["global project_index.json"]], p)
    ELSE Outcome("discovery", "completed", FALSE,
                 [d EXCEPT !.files["project_index.json"] = Written,
                           !.files["global project_index.json"] = Written], p)

\* SpecPipeline._phase_requirements
phase_requirements(d, p, ok) ==
    IF ~ok THEN Outcome("requirements", "failed", FALSE, d, p)
    ELSE Outcome("requirements", "completed", FALSE,
                 [d EXCEPT !.files["requirements.json"] = Written], p)

\* SpecPipeline._phase_complexity: run_complexity_assessment finds the
\* level `level`, and load_assessment reads the file back or returns None
phase_complexity(d, p, ok, level, needs_research, load_ok) ==
    LET d1 == IF d.files["complexity_assessment.json"].written THEN d
              ELSE [d EXCEPT !.files["complexity_assessment.json"] = WrittenAt(p.run),
                             !.complexity = level,
                             !.phases = phases_to_run(<<>>, level, needs_research)]
        p1 == IF load_ok
              THEN [p EXCEPT !.complexity = d1.complexity,
                             !.phases = phases_to_run(d1.phases, d1.complexity, FALSE)]
              ELSE p
    IN  IF d.files["complexity_assessment.json"].written
        THEN Outcome("complexity_assessment", "completed", TRUE, d1, p1)
        ELSE IF ok THEN Outcome("complexity_assessment", "completed", FALSE, d1, p1)
        ELSE Outcome("complexity_assessment", "failed", FALSE, d, p)

\* run_context_discovery and run_impact_analysis, which write `file`
phase_cached_file(name, file, d, p, ok) ==
    IF d.files[file].written THEN Outcome(name, "completed", TRUE, d, p)
    ELSE IF ok
    THEN Outcome(name, "completed", FALSE, [d EXCEPT !.files[file] = Written], p)
    ELSE Outcome(name, "failed", FALSE, d, p)

\* SpecPipeline._phase_spec_writing: spec.md holds "Generated: <now>"
phase_spec_writing(d, p, ok) ==
    IF ok
    THEN Outcome("spec_writing", "completed", FALSE,
                 [d EXCEPT !.files["spec.md"] = WrittenAt(p.run)], p)
    ELSE Outcome("spec_writing", "failed", FALSE, d, p)

\* SpecPipeline._phase_validation; ~ok: reading spec.md raises
phase_validation(d, p, ok) ==
    IF /\ \A f \in required_files(p.complexity) : d.files[f].written
       /\ ok
    THEN Outcome("validation", "completed", FALSE, d, p)
    ELSE Outcome("validation", "failed", FALSE, d, p)

\* _run_phase(name) as run sees it: the result after the retries
run_phase_result(name, d, p, ok, level, needs_research, load_ok) ==
    CASE name = "discovery" -> phase_discovery(d, p, ok)
      [] name = "requirements" -> phase_requirements(d, p, ok)
      [] name = "complexity_assessment" ->
            phase_complexity(d, p, ok, level, needs_research, load_ok)
      [] name = "context" -> phase_cached_file(name, "context.json", d, p, ok)
      [] name = "impact_analysis" ->
            phase_cached_file(name, "impact_analysis.json", d, p, ok)
      [] name = "spec_writing" -> phase_spec_writing(d, p, ok)
      [] OTHER -> phase_validation(d, p, ok)

\* PipelineState.add_result and what the phase left in the state
add_result(p, o) ==
    [p EXCEPT !.phase_results = Append(@, o.result),
              !.phases_executed = Append(@, o.result.phase_name),
              !.complexity = o.complexity, !.phases = o.phases]

\* a new SpecPipeline is built and run is called, up to the first phase
PipeStart ==
    /\ pipe.pc \in {"idle", "done"}
    /\ pipe.run < MaxRuns
    /\ \E interactive \in BOOLEAN, skip \in BOOLEAN :
          pipe' = [NewPipelineState EXCEPT
                      !.pc = "discovery", !.run = pipe.run + 1,
                      !.interactive = interactive,
                      !.skip_impact_analysis = skip,
                      !.prev_results = pipe.phase_results,
                      !.prev_config = <<pipe.interactive, pipe.skip_impact_analysis>>,
                      !.before = spec_dir.files]
    /\ UNCHANGED <<spec_dir, svars, lvars, rvars, dvars, fvars, qvars, cvars, pvars, gvars, hvars, nvars>>

\* the phases run calls by name, lines 168-183
PipeFixedPhase ==
    /\ pipe.pc \in {"discovery", "requirements", "complexity_assessment"}
    /\ \E ok \in BOOLEAN, level \in Complexities, needs_research \in BOOLEAN,
          load_ok \in BOOLEAN :
         LET o == run_phase_result(pipe.pc, spec_dir, pipe, ok, level,
                                   needs_research, load_ok)
             p1 == add_result(pipe, o)
             remaining == get_remaining_phases(p1)
         IN  /\ spec_dir' = o.dir
             /\ pipe' =
                  IF o.result.status # "completed" THEN [p1 EXCEPT !.pc = "done"]
                  ELSE IF pipe.pc = "discovery"
                  THEN [p1 EXCEPT !.pc = IF pipe.interactive THEN "requirements"
                                         ELSE "complexity_assessment"]
                  ELSE IF pipe.pc = "requirements"
                  THEN [p1 EXCEPT !.pc = "complexity_assessment"]
                  ELSE [p1 EXCEPT !.queue = remaining,
                                  !.pc = IF remaining = <<>> THEN "done"
                                         ELSE "remaining"]
    /\ UNCHANGED <<svars, lvars, rvars, dvars, fvars, qvars, cvars, pvars, gvars, hvars, nvars>>

\* one pass of the loop over phases_to_run, lines 186-197
PipeRemainingPhase ==
    /\ pipe.pc = "remaining"
    /\ \E ok \in BOOLEAN :
         LET phase_name == Head(pipe.queue)
             rest == Tail(pipe.queue)
             o == run_phase_result(phase_name, spec_dir, pipe, ok, "simple",
                                   FALSE, FALSE)
             p1 == add_result(pipe, o)
         IN  IF phase_name \notin PhaseNames
             THEN /\ pipe' = [pipe EXCEPT !.queue = rest,
                                          !.pc = IF rest = <<>> THEN "done" ELSE @]
                  /\ UNCHANGED spec_dir
             ELSE /\ spec_dir' = o.dir
                  /\ pipe' = [p1 EXCEPT !.queue = rest,
                                        !.pc = IF o.result.status # "completed"
                                                  \/ rest = <<>>
                                               THEN "done" ELSE @]
    /\ UNCHANGED <<svars, lvars, rvars, dvars, fvars, qvars, cvars, pvars, gvars, hvars, nvars>>

\* a phase list an assessment file can hold besides the built-in ones
\* (recommended_phases of an assessment made elsewhere)
RecommendedPhases ==
    {<<"discovery", "requirements", "validation", "context", "spec_writing">>}

\* the spec directory is empty, or holds the project index and an assessment
\* with recommended phases; the global project index may exist
PipeInit ==
    /\ pipe = NewPipelineState
    /\ \E global \in BOOLEAN :
          spec_dir \in
              {[EmptySpecDir EXCEPT
                   !.files["global project_index.json"] =
                       IF global THEN Written ELSE NoFile]}
              \cup {[EmptySpecDir EXCEPT
                        !.files["project_index.json"] = Written,
                        !.files["complexity_assessment.json"] = Written,
                        !.complexity = "standard", !.phases = r] :
                    r \in RecommendedPhases}

PipelineSpecInit ==
    SessionInit /\ LockInit /\ ReviewIdle /\ DirIdle /\ FixerIdle /\ LoopIdle
        /\ CoderIdle /\ PushIdle /\ GitIdle /\ PhaseIdle /\ PipeInit
        /\ CancelIdle

PipelineNext == PipeStart \/ PipeFixedPhase \/ PipeRemainingPhase

PipelineSpec == PipelineSpecInit /\ [][PipelineNext]_vars

\* C21: a phase other than validation that ended in failure is the last
\* phase of its run, and after a validation that ended in failure the run
\* still executes the registered phases listed after it.
C21_OnlyValidationContinues ==
    /\ \A i \in 1..Len(pipe.phase_results) :
          (pipe.phase_results[i].status = "failed"
              /\ pipe.phase_results[i].phase_name # "validation") =>
                  (i = Len(pipe.phase_results) /\ pipe.pc = "done")
    /\ (/\ pipe.pc = "done"
        /\ pipe.phase_results # <<>>
        /\ pipe.phase_results[Len(pipe.phase_results)].phase_name = "validation"
        /\ pipe.phase_results[Len(pipe.phase_results)].status = "failed") =>
            Range(pipe.queue) \cap PhaseNames = {}

\* every phase of the sequence of results ended as completed
AllCompleted(results) ==
    \A i \in 1..Len(results) : results[i].status = "completed"

\* the second run has ended with all its phases completed, under the
\* configuration of the first, which had completed all its phases too
SecondRunDone ==
    /\ pipe.run = 2 /\ pipe.pc = "done"
    /\ pipe.prev_results # <<>> /\ AllCompleted(pipe.prev_results)
    /\ pipe.prev_config = <<pipe.interactive, pipe.skip_impact_analysis>>
    /\ AllCompleted(pipe.phase_results) /\ pipe.complexity # "None"

\* C22: when a second run on the same spec directory has ended, every file
\* has the contents it had when that run began, and every phase the first
\* run executed has a result of the second run that is completed and cached.
C22_SecondRunCached ==
    SecondRunDone =>
        /\ spec_dir.files = pipe.before
        /\ \A i \in 1..Len(pipe.prev_results) :
              \E j \in 1..Len(pipe.phase_results) :
                  /\ pipe.phase_results[j].phase_name
                        = pipe.prev_results[i].phase_name
                  /\ pipe.phase_results[j].status = "completed"
                  /\ pipe.phase_results[j].cached

\* the phases run executes before it reads the assessment's list
first_phases(interactive) ==
    <<"discovery">> \o (IF interactive THEN <<"requirements">> ELSE <<>>)
        \o <<"complexity_assessment">>

\* C23: a run with impact analysis not skipped that has ended without a
\* failed phase, the assessment loaded, has executed discovery, requirements
\* if interactive, and the complexity assessment, and then every phase of the
\* assessment's list not executed before, in list order.
C23_ListedPhasesExecuted ==
    (/\ pipe.pc = "done" /\ pipe.run >= 1
     /\ AllCompleted(pipe.phase_results)
     /\ ~pipe.skip_impact_analysis
     /\ pipe.complexity # "None") =>
        pipe.phases_executed =
            first_phases(pipe.interactive)
                \o Without(pipe.phases, Range(first_phases(pipe.interactive)))

(***************************************************************************)
(* Cancellation requested while push_branch or _run_phase is under way.    *)
(* Both wait with time.sleep, which returns only when the time is over, and*)
(* neither loop reads a cancellation flag.                                 *)
(***************************************************************************)
RequestCancel ==
    /\ ~cancel_requested
    /\ cancel_requested' = TRUE
    /\ UNCHANGED <<cleanup_calls, impact, plan, svars, lvars, rvars, dvars, fvars, qvars, cvars, pvars, gvars, hvars, kvars>>

BackoffSpecInit ==
    SessionInit /\ LockInit /\ ReviewIdle /\ DirIdle /\ FixerIdle /\ LoopIdle
        /\ CoderIdle /\ PushInit /\ GitIdle /\ PhaseInit /\ PipeIdle
        /\ CancelIdle

BackoffNext == PushNext \/ PhaseNext \/ RequestCancel

BackoffSpec == BackoffSpecInit /\ [][BackoffNext]_vars

\* the push is in the backoff wait after a failed attempt
PushWaiting == push.pc = "retry" /\ Len(push.waits) = push.attempt /\ push.attempt > 0

\* the phase is in the wait after a pass that raised
PhaseWaiting == run_phase.pc = "loop" /\ run_phase.sleeps = run_phase.attempt
                    /\ run_phase.attempt > 0

\* C25: once cancellation has been requested during a backoff wait of the
\* push or of the phase, that operation makes no further attempt.
C25_CancelEndsBackoff ==
    [][/\ (cancel_requested /\ PushWaiting) => push'.tried = push.tried
       /\ (cancel_requested /\ PhaseWaiting) =>
              run_phase'.tried = run_phase.tried]_vars

(***************************************************************************)
(* CoderAgent._execution_loop over an ExecutionPlan.  A task is its status *)
(* and the ids of its dependencies; its id is its place in plan.tasks.     *)
(***************************************************************************)
\* the ids of the completed tasks
completed_ids(tasks) == {i \in DOMAIN tasks : tasks[i].status = "completed"}

\* the loop of get_next_task from task i on, without the test of the
\* dependencies; 0 stands for None
RECURSIVE next_pending_from(_, _)
next_pending_from(tasks, i) ==
    IF i > Len(tasks) THEN 0
    ELSE IF tasks[i].status # "pending" THEN next_pending_from(tasks, i + 1)
    ELSE i

\* the loop of ExecutionPlan.get_next_task from task i on
RECURSIVE next_task_from(_, _)
next_task_from(tasks, i) ==
    IF i > Len(tasks) THEN 0
    ELSE IF tasks[i].status # "pending" THEN next_task_from(tasks, i + 1)
    ELSE IF tasks[i].dependencies \subseteq completed_ids(tasks) THEN i
    ELSE next_task_from(tasks, i + 1)

\* the first pending task, whatever its dependencies
get_next_task_pending(tasks) == next_pending_from(tasks, 1)

\* ExecutionPlan.get_next_task
get_next_task(tasks) == next_task_from(tasks, 1)

\* mark_task_started, mark_task_completed, mark_task_failed
mark_task(tasks, id, status) == [tasks EXCEPT ![id].status = status]

\* CoderAgent._should_stop; a fatal error makes the status FAILED
plan_should_stop(p) ==
    is_finished(p.status) \/ p.iteration_count >= p.max_iterations

\* CoderAgent._should_auto_continue with a plan
plan_should_auto_continue(p) ==
    /\ p.auto_continue
    /\ p.auto_continue_count < auto_continue_max
    /\ get_next_task(p.tasks) # 0

\* one pass of the loop of _execution_loop; _execute_iteration returns a
\* result with success or, when it caught an exception, without
PlanIteration ==
    /\ plan.pc = "loop"
    /\ ~plan_should_stop(plan)
    /\ \E success \in BOOLEAN :
         LET p1 == [plan EXCEPT !.iteration_count = @ + 1]
             id == get_next_task(p1.tasks)
             p2 == [p1 EXCEPT !.tasks = mark_task(@, id, "in_progress"),
                              !.started = Append(@, [id |-> id, tasks |-> p1.tasks])]
             p3 == [p2 EXCEPT !.tasks = mark_task(@, id, "completed")]
             p4 == [p2 EXCEPT !.tasks = mark_task(@, id, "failed")]
         IN  plan' =
               IF id = 0
               THEN [p1 EXCEPT !.status = "completed",
                               !.result = "All tasks completed successfully",
                               !.pc = "done"]
               ELSE IF success
               THEN IF plan_should_auto_continue(p3)
                    THEN [p3 EXCEPT !.auto_continue_count = @ + 1]
                    ELSE [p3 EXCEPT !.status = "completed",
                                    !.result = "Applied 0 file changes",
                                    !.pc = "done"]
               ELSE IF p4.retries_performed < p4.max_retries
                    THEN [p4 EXCEPT !.retries_performed = @ + 1]
                    ELSE [p4 EXCEPT !.status = "failed", !.pc = "done"]
    /\ UNCHANGED <<cancel_requested, cleanup_calls, impact, svars, lvars, rvars, dvars, fvars, qvars, cvars, pvars, gvars, hvars, kvars>>

\* the loop ends because _should_stop is true, and run returns
PlanStop ==
    /\ plan.pc = "loop"
    /\ plan_should_stop(plan)
    /\ plan' = [plan EXCEPT !.pc = "done"]
    /\ UNCHANGED <<cancel_requested, cleanup_calls, impact, svars, lvars, rvars, dvars, fvars, qvars, cvars, pvars, gvars, hvars, kvars>>

\* the plans of n tasks in which a task depends on earlier tasks only
Plans(n) ==
    {ts \in [1..n -> [status : {"pending"}, dependencies : SUBSET (1..n)]] :
        \A i \in 1..n : ts[i].dependencies \subseteq 1..(i - 1)}

PlanInit ==
    \E n \in 1..MaxPlanTasks :
        plan \in [pc : {"loop"}, tasks : Plans(n), status : {"running"},
                  result : {"None"}, iteration_count : {0},
                  retries_performed : {0}, auto_continue_count : {0},
                  max_iterations : 1..MaxPlanIterations,
                  max_retries : 0..MaxPlanRetries, auto_continue : BOOLEAN,
                  started : {<<>>}]

PlanSpecInit ==
    SessionInit /\ LockInit /\ ReviewIdle /\ DirIdle /\ FixerIdle /\ LoopIdle
        /\ CoderIdle /\ PushIdle /\ GitIdle /\ PhaseIdle /\ PipeIdle
        /\ cancel_requested = FALSE /\ cleanup_calls = 0 /\ impact = NoImpact
        /\ PlanInit

PlanNext == PlanIteration \/ PlanStop

PlanSpec == PlanSpecInit /\ [][PlanNext]_vars

\* task id of the plan is pending and its dependencies are all completed
Ready(tasks, id) ==
    /\ tasks[id].status = "pending"
    /\ \A d \in tasks[id].dependencies : tasks[d].status = "completed"

\* C34: get_next_task returns a task that is pending with all dependencies
\* completed, or nothing when the plan has no such task, and every task
\* the coder started was in that condition when it was started.
C34_NextTaskIsReady ==
    /\ LET id == get_next_task(plan.tasks)
       IN  IF id = 0 THEN \A i \in DOMAIN plan.tasks : ~Ready(plan.tasks, i)
           ELSE id \in DOMAIN plan.tasks /\ Ready(plan.tasks, id)
    /\ \A k \in 1..Len(plan.started) :
          Ready(plan.started[k].tasks, plan.started[k].id)

\* a pending task that waits for a failed one was passed over and a later
\* task was started
C34_BlockedTaskSkipped ==
    \E i \in DOMAIN plan.tasks :
        /\ plan.tasks[i].status = "pending"
        /\ \E d \in plan.tasks[i].dependencies : plan.tasks[d].status = "failed"
        /\ \E k \in 1..Len(plan.started) : plan.started[k].id > i

\* C35: when the coder has finished with status COMPLETED and the result
\* "All tasks completed successfully", every task of the plan is completed.
C35_AllTasksCompleted ==
    (/\ plan.pc = "done" /\ plan.status = "completed"
     /\ plan.result = "All tasks completed successfully") =>
        \A i \in DOMAIN plan.tasks : plan.tasks[i].status = "completed"

(***************************************************************************)
(* ImpactAnalyzer: the severity of a change.  The input is the number of   *)
(* affected files, of affected services, of breaking changes without and   *)
(* with migration_required, and of files without tests.                    *)
(***************************************************************************)
\* ImpactAnalyzer._assess_rollback_complexity
assess_rollback_complexity(files, breaking, migrating) ==
    IF migrating > 0 THEN "high"
    ELSE IF files > 20 THEN "high"
    ELSE IF files > 10 THEN "medium"
    ELSE IF breaking + migrating > 3 THEN "medium"
    ELSE "low"

\* the score of the breaking changes, any(bc.migration_required) read as
\* all(...) of a list that is not empty
breaking_score_all(breaking, migrating) ==
    IF migrating > 0 /\ breaking = 0 THEN 4
    ELSE IF breaking + migrating > 5 THEN 3
    ELSE IF breaking + migrating > 2 THEN 2
    ELSE IF breaking + migrating > 0 THEN 1
    ELSE 0

\* _calculate_severity: the score of the breaking changes
breaking_score(breaking, migrating) ==
    IF migrating > 0 THEN 4
    ELSE IF breaking + migrating > 5 THEN 3
    ELSE IF breaking + migrating > 2 THEN 2
    ELSE IF breaking + migrating > 0 THEN 1
    ELSE 0

\* _calculate_severity: the score
severity_score(files, services, breaking, migrating, gaps, rollback) ==
    (IF files > 30 THEN 4 ELSE IF files > 15 THEN 3
     ELSE IF files > 5 THEN 2 ELSE IF files > 0 THEN 1 ELSE 0)
    + (IF services > 3 THEN 3 ELSE IF services > 1 THEN 2
       ELSE IF services = 1 THEN 1 ELSE 0)
    + breaking_score(breaking, migrating)
    + (IF gaps > 5 THEN 2 ELSE IF gaps > 2 THEN 1 ELSE 0)
    + (IF rollback = "high" THEN 2 ELSE IF rollback = "medium" THEN 1 ELSE 0)

\* _calculate_severity: the level of a score
severity_level(score) ==
    IF score >= 10 THEN "critical"
    ELSE IF score >= 7 THEN "high"
    ELSE IF score >= 4 THEN "medium"
    ELSE IF score >= 1 THEN "low"
    ELSE "none"

\* the order of ImpactSeverity
severity_rank(level) ==
    CASE level = "none" -> 0 [] level = "low" -> 1 [] level = "medium" -> 2
      [] level = "high" -> 3 [] OTHER -> 4

\* _calculate_severity on the rollback complexity of the same input
calculate_severity(i) ==
    LET score == severity_score(i.files, i.services, i.breaking, i.migrating,
                                i.gaps,
                                assess_rollback_complexity(i.files, i.breaking,
                                                           i.migrating))
    IN  [score |-> score, level |-> severity_level(score), calculated |-> TRUE]

\* the severity of the input is calculated
CalculateSeverity ==
    /\ ~impact.result.calculated
    /\ impact' = [impact EXCEPT !.result = calculate_severity(impact)]
    /\ UNCHANGED <<cancel_requested, cleanup_calls, plan, svars, lvars, rvars, dvars, fvars, qvars, cvars, pvars, gvars, hvars, kvars>>

\* one more affected file in the input, the rest unchanged
AddAffectedFile ==
    /\ impact.result.calculated /\ ~impact.before.calculated
    /\ impact.files < MaxFiles
    /\ impact' = [impact EXCEPT !.files = @ + 1, !.before = impact.result,
                                !.result = NoSeverity]
    /\ UNCHANGED <<cancel_requested, cleanup_calls, plan, svars, lvars, rvars, dvars, fvars, qvars, cvars, pvars, gvars, hvars, kvars>>

\* one more breaking change in the input, the rest unchanged
AddBreakingChange(migration_required) ==
    /\ impact.result.calculated /\ ~impact.before.calculated
    /\ IF migration_required THEN impact.migrating < MaxMigrating
       ELSE impact.breaking < MaxBreaking
    /\ impact' = [impact EXCEPT
                     !.migrating = IF migration_required THEN @ + 1 ELSE @,
                     !.breaking = IF migration_required THEN @ ELSE @ + 1,
                     !.before = impact.result, !.result = NoSeverity]
    /\ UNCHANGED <<cancel_requested, cleanup_calls, plan, svars, lvars, rvars, dvars, fvars, qvars, cvars, pvars, gvars, hvars, kvars>>

ImpactInit ==
    impact \in [files : 0..MaxFiles, services : 0..MaxServices,
                breaking : 0..MaxBreaking, migrating : 0..MaxMigrating,
                gaps : 0..MaxGaps, result : {NoSeverity}, before : {NoSeverity}]

ImpactSpecInit ==
    SessionInit /\ LockInit /\ ReviewIdle /\ DirIdle /\ FixerIdle /\ LoopIdle
        /\ CoderIdle /\ PushIdle /\ GitIdle /\ PhaseIdle /\ PipeIdle
        /\ cancel_requested = FALSE /\ cleanup_calls = 0 /\ ImpactInit
        /\ PlanIdle

ImpactNext ==
    \/ CalculateSeverity
    \/ AddAffectedFile
    \/ \E m \in BOOLEAN : AddBreakingChange(m)

ImpactSpec == ImpactSpecInit /\ [][ImpactNext]_vars

\* C33: the severity calculated after one affected file or one breaking
\* change was added to the input has a score and a level not below those
\* calculated before.
C33_SeverityMonotone ==
    (impact.result.calculated /\ impact.before.calculated) =>
        /\ impact.before.score <= impact.result.score
        /\ severity_rank(impact.before.level)
              <= severity_rank(impact.result.level)

\* a breaking change that requires migration was added and raised the level
C33_LevelRaised ==
    /\ impact.result.calculated /\ impact.before.calculated
    /\ impact.migrating > 0
    /\ severity_rank(impact.before.level) < severity_rank(impact.result.level)

(***************************************************************************)
(* QA loop: claims                                                         *)
(***************************************************************************)
\* the number of iteration records that list the title, each record once
RecordsWithTitle(history, title) ==
    Cardinality({r \in DOMAIN history :
        \E i \in DOMAIN history[r].issues_found :
            history[r].issues_found[i] = title})

\* some title is listed by at least three iteration records
TitleInThreeRecords ==
    \E title \in HistoryTitles(state.history) :
        RecordsWithTitle(state.history, title) >= 3

\* the last record of the history has this status
LastStatus(status) ==
    state.history # <<>> /\ state.history[Len(state.history)].status = status

\* C5: the loop escalates because of a recurring issue exactly when some
\* title appears in at least 3 iteration records, counted once per record:
\* it has escalated for recurrence only if such a title exists, and a
\* rejected iteration after which the loop goes on leaves no such title.
C5_RecurringEscalation ==
    /\ qa_msg = "Escalated to human" => TitleInThreeRecords
    /\ (qa_pc = "loop" /\ LastStatus("rejected")) => ~TitleInThreeRecords

\* C6: consecutive iteration records carry iteration numbers that differ by
\* exactly 1, whatever way the iterations ended.
C6_IterationNumbers ==
    \A r \in 1..(Len(state.history) - 1) :
        state.history[r + 1].iteration = state.history[r].iteration + 1

\* the iteration numbered n raised an exception
RaisedIn(n) ==
    \E r \in DOMAIN state.history :
        state.history[r].iteration = n /\ state.history[r].status = "exception"

\* the last max_consecutive_errors iterations all raised an exception
ExceptionStreak ==
    \A n \in (state.current_iteration - config.max_consecutive_errors + 1)
                 .. state.current_iteration : RaisedIn(n)

\* C7: as soon as exceptions have occurred in max_consecutive_errors
\* consecutive iterations the loop stops and escalates: it does not start
\* another iteration, and it returns with escalated_to_human = true and
\* the phase FAILED.
C7_ExceptionsEscalate ==
    ExceptionStreak =>
        /\ ~(qa_pc = "loop"
             /\ LoopCondition(state.current_iteration, config.max_iterations))
        /\ qa_pc = "done" =>
               (state.escalated_to_human /\ state.current_phase = "failed")

Larger(a, b) == IF a >= b THEN a ELSE b

\* the most steps run can still take: the prologue, the iterations left,
\* the exit of the loop with the epilogue
StepsLeft ==
    CASE qa_pc = "init" -> config.max_iterations + 3
      [] qa_pc = "loop" ->
            IF LoopCondition(state.current_iteration, config.max_iterations)
            THEN config.max_iterations - state.current_iteration + 2
            ELSE 2
      [] qa_pc = "finalize" -> 1
      [] OTHER -> 0

\* run is at a point from which one of its steps goes on: the prologue,
\* the loop body, or the exit of the loop with the epilogue
StepReady ==
    \/ qa_pc = "init"
    \/ qa_pc = "loop"
           /\ LoopCondition(state.current_iteration, config.max_iterations)
    \/ qa_pc = "loop"
           /\ ~LoopCondition(state.current_iteration, config.max_iterations)
    \/ qa_pc = "finalize"

ReviewFixes(lines) ==
    {generate_fix(issue, lines) :
        issue \in {ExceptIssues(lines, 1)[i] : i \in DOMAIN ExceptIssues(lines, 1)}
                      \cup {LoopIssue}}

\* C11: during a QA loop run a generated fix is written to the code base
\* only if auto-apply is enabled, the fix's strategy is not MANUAL, and the
\* fix's confidence is at least the loop's configured min_fix_confidence.
C11_FixWrittenOnlyIfConfident ==
    [][code' # code =>
          /\ config.auto_fix
          /\ \E fix \in ReviewFixes(code) :
                 /\ fix.strategy # "manual"
                 /\ fix.confidence >= config.min_fix_confidence
                 /\ apply_fix(fix, code).lines = code']_vars

(***************************************************************************)
(* QA review: claims                                                       *)
(***************************************************************************)
\* every test of the run passed: the run was not cut off and no test failed
\* (with no test framework there are no tests)
AllTestsPassed(run) ==
    run.framework = "none" \/ (~run.timed_out /\ run.failed = 0)

\* C9: a review is approved if and only if it found no critical issue and
\* fewer than three high-severity issues and all tests passed; in every
\* other case it is rejected.  Stated for the reviews that run to their end
\* (one that raises returns the third status "error" and saves no sign-off).
C9_Verdict ==
    (rv_out.status # "none" /\ ~rv_in.raises) =>
        /\ rv_out.status \in {"approved", "rejected"}
        /\ rv_out.status = "approved" <=>
               /\ \A i \in DOMAIN rv_in.issues : rv_in.issues[i].severity # "critical"
               /\ Cardinality({i \in DOMAIN rv_in.issues :
                                   rv_in.issues[i].severity = "high"}) < 3
               /\ AllTestsPassed(rv_in.run)

(***************************************************************************)
(* QA fixer: claims                                                        *)
(***************************************************************************)
\* the sign-off lists exactly one LOW 'Debug Statements' issue that names
\* an existing line of app.py
OneDebugIssue(so) ==
    /\ so # NoSignoff
    /\ Len(so.issues) = 1
    /\ so.issues[1].title = "Debug Statements"
    /\ so.issues[1].severity = "low"
    /\ so.issues[1].file = "app.py"
    /\ so.issues[1].line \in 1..Len(code)

\* C10: run with auto_apply = true and min_confidence = 0.7 on a sign-off
\* holding one LOW 'Debug Statements' issue at file:line, the fixer removes
\* that line from the file and saves a sign-off with status fixes_applied
\* and ready_for_qa_revalidation = true.
C10_DebugLineRemoved ==
    [][(RunFixer /\ fx_in.auto_apply /\ OneDebugIssue(signoff)) =>
          /\ code' = RemoveAt(code, signoff.issues[1].line)
          /\ signoff'.status = "fixes_applied"
          /\ signoff'.ready]_vars


\* C27: whenever run has returned with escalated_to_human set,
\* QA_ESCALATION.md has been written and the current phase is FAILED.
C27_EscalatedHasReport ==
    (qa_pc = "done" /\ state.escalated_to_human) =>
        (qa_report /\ state.current_phase = "failed")

\* C28: the phases the on_phase_change callback has been called with are the
\* values current_phase has taken, in the same order.
C28_EveryPhaseChangeReported == qa_seen = qa_phases

\* C29: in every session record created_at <= started_at once started_at is
\* set, and started_at <= completed_at once both are set.
C29_LifecycleTimeline ==
    \A s \in exists :
        /\ sessions[s].started_at # NoTime =>
               sessions[s].created_at <= sessions[s].started_at
        /\ (sessions[s].started_at # NoTime
                /\ sessions[s].completed_at # NoTime) =>
               sessions[s].started_at <= sessions[s].completed_at

\* C30: a review whose test subprocess exceeded its time limit, and was not
\* run again with a result, does not report success (status approved).
C30_TimedOutTestsNotApproved ==
    (/\ rv_out.status # "none" /\ ~rv_in.raises
     /\ rv_in.run.framework # "none" /\ rv_in.run.timed_out) =>
        rv_out.status # "approved"

\* C32: the qa_session values of the sign-offs one run of the loop saves,
\* by the review, the fixer and the processing of human feedback, never
\* decrease from one save to the next, and none is below the stored one.
C32_QaSessionMonotone ==
    /\ \A i \in 1..Len(qa_writes) : qa_in.qa_session <= qa_writes[i]
    /\ \A i \in 1..(Len(qa_writes) - 1) : qa_writes[i] <= qa_writes[i + 1]

\* the review has saved a sign-off after the fixer saved one
C32_ReviewAfterFix ==
    /\ \E i \in 1..(Len(qa_writes) - 1) : qa_writes[i] = qa_writes[i + 1]
    /\ \E i \in 1..(Len(qa_writes) - 1) : qa_writes[i] < qa_writes[i + 1]
    /\ qa_in.qa_session > 0

\* C36: when run has returned, state.is_approved is true exactly when the
\* sign-off stored in the spec directory has status approved.
C36_ApprovedIffSignoffApproved ==
    qa_pc = "done" => (state.is_approved <=> is_qa_approved(signoff))

\* C39: when run has returned, exactly one of state.is_approved and
\* state.escalated_to_human is true.
C39_ApprovedXorEscalated ==
    qa_pc = "done" => (state.is_approved <=> ~state.escalated_to_human)

\* C37: no session of the active set has status completed, failed or
\* cancelled.
C37_ActiveSetNotTerminal ==
    \A s \in active : sessions[s].status \notin TerminalStatuses

\* C38: when CoderAgent.run has returned, the loop has made at most
\* max_iterations passes and the status is COMPLETED, FAILED or CANCELLED.
C38_CoderReturnsFinished ==
    coder.pc = "done" =>
        /\ coder.iteration_count <= cd_config.max_iterations
        /\ is_finished(coder.status)

\* whether each fix of applied[i..] names an existing line of the file as
\* it is when that fix is applied, the file being `lines` before applied[i]
RECURSIVE EditedAtLine(_, _, _)
EditedAtLine(applied, i, lines) ==
    IF i > Len(applied) THEN TRUE
    ELSE /\ FileExists(applied[i].file_path)
         /\ 0 < applied[i].line_number
         /\ applied[i].line_number <= Len(lines)
         /\ EditedAtLine(applied, i + 1, apply_fix(applied[i], lines).lines)

\* C40: every fix listed in fixes_applied edited the target file at the
\* fix's line: none of them has a missing line number or one outside the
\* file.
C40_AppliedFixesEdited ==
    fx_out.status # "none" =>
        EditedAtLine(fx_out.result.applied, 1, fx_in.code)

\* a fix was applied: the line it names holds the fixed code
C40_FixApplied ==
    /\ fx_out.status # "none"
    /\ fx_out.result.applied # <<>>
    /\ LET fix == fx_out.result.applied[1]
       IN  /\ fix.line_number \in 1..Len(fx_in.code)
           /\ code[fix.line_number] = fix.fixed_code
           /\ fx_in.code[fix.line_number] # fix.fixed_code

====
